---- MODULE Spec2Model ----
(***************************************************************************)
(* Model of the BidFTA auction scraper: row extraction, criteria filter,   *)
(* de-duplication, the per-term search loop, the scrape_all_searches run   *)
(* with its browser session, and the main entry point.                     *)
(*                                                                         *)
(* Python str values are TLA+ strings; a character is a string of length   *)
(* one. Python None is the value None below; Truthy is Python truthiness   *)
(* of an optional string.                                                  *)
(***************************************************************************)
EXTENDS Integers, Sequences, FiniteSets, TLC

VARIABLES
    pc,            \* position of the process in main / run_full_scraping / scrape_all_searches
    args,          \* main's command line flags
    now,           \* wall clock, as a day ordinal (see weekday)
    ticks,         \* number of midnights passed since the run started
    driver,        \* self.driver: "unset" or "set"
    session,       \* the browser session: "none", "open" or "closed"
    sessionsMade,  \* number of browser sessions created by webdriver.Chrome
    termIdx,       \* index in SEARCH_TERMS of the term being processed (1-based)
    requests,      \* the search requests built so far, one per build_search_url call
    loads,         \* for each driver.get so far: the session state, and whether the
                   \* load timed out, was interrupted, or yielded rows or none
    termResults,   \* the list search_auctions returned for each term searched so far
    all_auctions,  \* scrape_all_searches' accumulator
    unique,        \* scrape_all_searches' return value, once computed
    pending,       \* the exception in flight: "none", "Exception" or "KeyboardInterrupt"
    origin,        \* where that exception was raised, "none" if there is none
    scrapeCalls,   \* number of calls of scrape_all_searches
    reportMails,   \* number of send_email calls
    failureMails,  \* number of send_failure_notification calls
    exitStatus,    \* the status main passed to sys.exit, -1 while running
    row,           \* the row under extraction (extraction entry point)
    extracted,     \* the results of the production and the debug extractor for row
    dinput,        \* the input list of remove_duplicates (dedupe entry point)
    doutput,       \* remove_duplicates(dinput) and remove_duplicates of that
    spage,         \* the page given to search_auctions (search entry point)
    sresult,       \* what search_auctions returned for spage
    crecord,       \* the record given to meets_criteria (criteria entry point)
    cverdict,      \* what meets_criteria returned for crecord
    uinput,        \* a search term and two clock values (URL entry point)
    uoutput,       \* what build_search_url returned for the term at either clock value
    ginput,        \* the list given to group_auctions_by_search_term (grouping entry point)
    goutput,       \* the dict it returned: its items in key order
    binput,        \* a page and the --max-auctions option (debug tool entry point)
    boutput,       \* what debug_search_term did on it: row numbers extracted, list returned
    winput,        \* a clock value and the debug tool's ignore_dates flag (date window entry point)
    woutput,       \* the windows get_week_date_range returned: the scraper's, the debug tool's
    einput,        \* a de-duplicated list, the image files on disk and the SMTP outcome (report entry point)
    eoutput        \* the report send_email built: image references of the HTML, attachments, result

vars == <<pc, args, now, ticks, driver, session, sessionsMade, termIdx, requests,
          loads, termResults, all_auctions, unique, pending, origin, scrapeCalls,
          reportMails, failureMails, exitStatus, row, extracted, dinput, doutput,
          spage, sresult, crecord, cverdict, uinput, uoutput, ginput, goutput,
          binput, boutput, winput, woutput, einput, eoutput>>

(***************************************************************************)
(* Strings                                                                 *)
(***************************************************************************)

\* Python None.
None == "<None>"

\* Python truthiness of an optional string: None and '' are falsy.
Truthy(s) == s # None /\ s # ""

\* The i-th character of s (1-based).
CharAt(s, i) == SubSeq(s, i, i)

\* str.startswith
StartsWith(s, p) == Len(p) <= Len(s) /\ SubSeq(s, 1, Len(p)) = p

\* `sub in s`
Contains(s, sub) ==
    \E i \in 1..(Len(s) - Len(sub) + 1) : SubSeq(s, i, i + Len(sub) - 1) = sub

\* Characters str.strip() removes, and the \s class of re.
Whitespace == {" ", "\t", "\n"}

RECURSIVE LStrip(_)
LStrip(s) ==
    IF s # "" /\ CharAt(s, 1) \in Whitespace THEN LStrip(SubSeq(s, 2, Len(s))) ELSE s

RECURSIVE RStrip(_)
RStrip(s) ==
    IF s # "" /\ CharAt(s, Len(s)) \in Whitespace
    THEN RStrip(SubSeq(s, 1, Len(s) - 1)) ELSE s

\* str.strip()
Strip(s) == RStrip(LStrip(s))

Upper == <<"A","B","C","D","E","F","G","H","I","J","K","L","M",
           "N","O","P","Q","R","S","T","U","V","W","X","Y","Z">>
LowerLetters == <<"a","b","c","d","e","f","g","h","i","j","k","l","m",
                  "n","o","p","q","r","s","t","u","v","w","x","y","z">>

LowerChar(c) ==
    IF \E i \in 1..26 : Upper[i] = c
    THEN LowerLetters[CHOOSE i \in 1..26 : Upper[i] = c]
    ELSE c

\* str.lower()
RECURSIVE Lower(_)
Lower(s) ==
    IF s = "" THEN "" ELSE LowerChar(CharAt(s, 1)) \o Lower(SubSeq(s, 2, Len(s)))

(***************************************************************************)
(* Configuration (config.example.py) and program constants                 *)
(***************************************************************************)

SEARCH_TERMS == <<"Cat", "Trash", "Rug">>

CINCINNATI_LOCATIONS ==
    <<"Cincinnati - West Seymour Ave", "Cincinnati - West Seymour Ave.",
      "Springdale - Commons Drive", "Cincinnati - School Road",
      "Cincinnati - Colerain Ave", "Cincinnati - Colerain Ave.",
      "Cincinnati - Waycross Rd CWY">>

FILTER_CONDITIONS == <<"Appears New", "Brand New">>

IMAGES_DIR == "scraper_output/images"

base_url == "https://www.bidft.auction"

\* A result row has the columns PHOTO, DESCRIPTION, AMAZON, CONDITION,
\* LOCATION, ENDS AT, PRICE.
MinCells == 7

(***************************************************************************)
(* URL clean-up of extract_auction_from_row                                *)
(***************************************************************************)

\* Characters that end a match of [^\s'"]+
UrlStop == Whitespace \cup {"'", "\""}

\* Last index of the maximal run of non-stop characters of s starting at j
\* (j - 1 if the run is empty).
RECURSIVE RunEnd(_, _)
RunEnd(s, j) ==
    IF j <= Len(s) /\ CharAt(s, j) \notin UrlStop THEN RunEnd(s, j + 1) ELSE j - 1

\* Does https?://[^\s'"]+ match s at index i, and with which scheme length.
SchemeLenAt(s, i) ==
    IF StartsWith(SubSeq(s, i, Len(s)), "https://") /\ RunEnd(s, i + 8) >= i + 8 THEN 8
    ELSE IF StartsWith(SubSeq(s, i, Len(s)), "http://") /\ RunEnd(s, i + 7) >= i + 7 THEN 7
    ELSE 0

\* re.search(r'(https?://[^\s\'"]+)', s): group(1) of the leftmost match, or None.
match_at(s, i) == SubSeq(s, i, RunEnd(s, i + SchemeLenAt(s, i)))

re_search_url(s) ==
    IF \E i \in 1..Len(s) : SchemeLenAt(s, i) > 0
    THEN match_at(s, CHOOSE i \in 1..Len(s) :
                        /\ SchemeLenAt(s, i) > 0
                        /\ \A j \in 1..(i - 1) : SchemeLenAt(s, j) = 0)
    ELSE None

\* "Clean up JavaScript onclick URLs"
use_match(url_match, auction_url) == IF url_match # None THEN url_match ELSE auction_url

clean_javascript(auction_url) ==
    IF Contains(auction_url, "javascript:") \/ Contains(auction_url, "onclick")
    THEN use_match(re_search_url(auction_url), auction_url)
    ELSE auction_url

\* "Make absolute"
make_absolute(auction_url) ==
    IF Truthy(auction_url) /\ ~StartsWith(auction_url, "http")
    THEN IF StartsWith(auction_url, "/")
         THEN "https://www.bidft.auction" \o auction_url
         ELSE IF StartsWith(auction_url, "www.bidfta.com")
         THEN "https://" \o auction_url
         ELSE "https://www.bidft.auction/" \o auction_url
    ELSE auction_url

\* "Clean and make URL absolute": the whole `if auction_url:` block.
clean_url(auction_url) ==
    IF Truthy(auction_url) THEN make_absolute(clean_javascript(auction_url))
    ELSE auction_url

\* urljoin(self.base_url, src) for a src that does not start with 'http';
\* base_url has an empty path.
urljoin_base(src) ==
    IF StartsWith(src, "//") THEN "https:" \o src
    ELSE IF StartsWith(src, "/") THEN base_url \o src
    ELSE IF StartsWith(src, "data:") THEN src
    ELSE base_url \o "/" \o src

(***************************************************************************)
(* Rows and extract_auction_from_row                                       *)
(*                                                                         *)
(* A row is what the browser collaborator exposes of one <tr>:             *)
(*   ncells      number of <td> cells                                      *)
(*   text1, cond, loc, ends, price                                         *)
(*               the .text of cells 1, 3, 4, 5, 6                          *)
(*   links       the <a> elements of the row in document order, each with  *)
(*               the index of its cell, its .text and its href attribute   *)
(*   clickables  the descendants of cell 1 matched by the Strategy 2 XPath,*)
(*               each with its onclick, data-href, data-url, href          *)
(*   img         the src of the <img> elements of cell 0 (first one used)  *)
(*   fault       where the collaborator raises an exception other than     *)
(*               NoSuchElementException, "none" if nowhere                 *)
(*   dl          what the image download does: "ok", "non200", "error"     *)
(***************************************************************************)

\* The value of `a or b or c or d`.
PyOr4(a, b, c, d) ==
    IF Truthy(a) THEN a ELSE IF Truthy(b) THEN b ELSE IF Truthy(c) THEN c ELSE d

\* A variant of download_image that returns the path whatever the response.
download_image_any_status(image_url, filename, outcome) ==
    IF ~Truthy(image_url) \/ StartsWith(image_url, "data:") THEN None
    ELSE IF outcome \in {"ok", "non200"} THEN IMAGES_DIR \o "/" \o filename
    ELSE None

\* download_image(image_url, filename): the local path, or None. outcome is
\* what requests.get and the file write do.
download_image(image_url, filename, outcome) ==
    IF ~Truthy(image_url) \/ StartsWith(image_url, "data:") THEN None
    ELSE IF outcome = "ok" THEN IMAGES_DIR \o "/" \o filename
    ELSE None

\* f"{hash(auction_url or title)}_{int(time.time())}.jpg"
image_filename(auction_url, title) ==
    "h(" \o (IF Truthy(auction_url) THEN auction_url ELSE title) \o ").jpg"

\* Strategy 3 of the production extractor: "Look anywhere in the row for
\* auction links". Returns the url and title it leaves behind.
IsAuctionHref(href) ==
    Truthy(href) /\ (Contains(href, "itemDetails") \/ Contains(href, "auction"))

\* The body of `for link in all_links` for the first link whose href carries
\* a marker.
take_marked_link(link, text1, title) ==
    [url |-> link.href,
     title |-> IF title # "" THEN title
               ELSE IF Strip(link.text) # "" THEN Strip(link.text)
               ELSE Strip(text1)]

\* A variant of first_marked that lets the loop run on to the last link
\* whose href carries a marker.
last_marked(all_links) ==
    IF \E i \in 1..Len(all_links) : IsAuctionHref(all_links[i].href)
    THEN CHOOSE i \in 1..Len(all_links) :
            /\ IsAuctionHref(all_links[i].href)
            /\ \A j \in (i + 1)..Len(all_links) : ~IsAuctionHref(all_links[j].href)
    ELSE 0

\* Index of the first link whose href carries a marker, 0 if there is none.
first_marked(all_links) ==
    IF \E i \in 1..Len(all_links) : IsAuctionHref(all_links[i].href)
    THEN CHOOSE i \in 1..Len(all_links) :
            /\ IsAuctionHref(all_links[i].href)
            /\ \A j \in 1..(i - 1) : ~IsAuctionHref(all_links[j].href)
    ELSE 0

strategy3_links(all_links, m, text1, title, auction_url) ==
    IF Len(all_links) = 0 THEN [title |-> title, url |-> auction_url]
    ELSE IF m > 0 THEN take_marked_link(all_links[m], text1, title)
    ELSE [title |-> title,
          url |-> IF ~Truthy(auction_url) THEN all_links[1].href ELSE auction_url]

strategy3(r, title, auction_url) ==
    IF r.fault = "s3" THEN [title |-> title, url |-> auction_url]
    ELSE strategy3_links(r.links, first_marked(r.links), r.text1, title, auction_url)

\* Strategy 1: "Direct link in description cell"
strategy1(link_elem) ==
    [title |-> Strip(link_elem.text), url |-> link_elem.href, tiers |-> {1}]

\* Strategy 2: "Look for clickable elements with data attributes"
strategy2(elem, text1) ==
    [title |-> Strip(text1),
     url |-> PyOr4(elem.onclick, elem.dataHref, elem.dataUrl, elem.href),
     tiers |-> {1, 2}]

\* A variant of the extractor without Strategy 4.
strategy4_skipped(found, text1) == found

\* Strategy 4: "Extract title even if no URL", on what the earlier
\* strategies found.
strategy4(found, text1) ==
    IF found.title = ""
    THEN [found EXCEPT !.title = Strip(text1), !.tiers = @ \cup {4}]
    ELSE found

WithTiers(tu, tiers) == [title |-> tu.title, url |-> tu.url, tiers |-> tiers]

\* The <a> elements of the description cell
Anchors1(r) == SelectSeq(r.links, LAMBDA a : a.cell = 1)

\* Title and URL discovery of the production extractor (Strategies 1-4):
\* the title, the raw URL candidate, and the strategies that ran. Strategy 3
\* runs when Strategy 2 raised, Strategy 4 when Strategy 1 found no link.
find_title_url(r) ==
    IF Len(Anchors1(r)) > 0 THEN strategy1(Anchors1(r)[1])
    ELSE IF r.fault # "s2" /\ Len(r.clickables) > 0
    THEN strategy4(strategy2(r.clickables[1], r.text1), r.text1)
    ELSE strategy4(WithTiers(strategy3(r, "", ""), {1, 2, 3}), r.text1)

\* What extract_auction_from_row returns when it returns None.
NoAuction == [none |-> TRUE]

\* The outcome of the try block of an extractor:
\*   exc       an exception left the block
\*   ret       the value returned
\*   tiers     the title/URL strategies that ran
\*   downloads the image URLs handed to download_image
Raised(tiers) == [exc |-> TRUE, ret |-> NoAuction, tiers |-> tiers, downloads |-> <<>>]
ReturnedNone == [exc |-> FALSE, ret |-> NoAuction, tiers |-> {}, downloads |-> <<>>]

\* A variant of the cell-count check that is off by one.
too_few_cells_off_by_one(r) == r.ncells < MinCells - 1

\* `if len(cells) < 7: return None`
too_few_cells(r) == r.ncells < MinCells

\* The image URL read from cell 0 ("EXTRACT IMAGE URL"), '' without an <img>.
image_src(src) ==
    IF Truthy(src) /\ ~StartsWith(src, "http") THEN urljoin_base(src) ELSE src

read_image_url(r) == IF Len(r.img) = 0 THEN "" ELSE image_src(r.img[1])

\* "Download image"
download_if_found(image_url, filename, outcome) ==
    IF Truthy(image_url) THEN download_image(image_url, filename, outcome) ELSE None

\* The auction_data dictionary and the download that precedes it.
make_auction_data(r, search_term, title, auction_url, image_url, tiers) ==
    [exc |-> FALSE,
     ret |-> [title |-> title,
              url |-> auction_url,
              current_bid |-> Strip(r.price),
              end_time |-> Strip(r.ends),
              location |-> Strip(r.loc),
              condition |-> Strip(r.cond),
              image_url |-> image_url,
              image_path |-> download_if_found(image_url,
                                 image_filename(auction_url, title), r.dl),
              search_term |-> search_term],
     tiers |-> tiers,
     downloads |-> IF Truthy(image_url) THEN <<image_url>> ELSE <<>>]

\* The try block after title/URL discovery. cells[i] raises IndexError when
\* the row has no cell i.
extract_fields(r, search_term, found) ==
    IF r.fault = "fields" \/ r.ncells < 7 THEN Raised(found.tiers)
    ELSE make_auction_data(r, search_term, found.title, clean_url(found.url),
                      read_image_url(r), found.tiers)

\* The body of extract_auction_from_row's try block.
extract_body(r, search_term) ==
    IF r.fault = "cells" THEN Raised({})
    ELSE IF too_few_cells(r) THEN ReturnedNone
    ELSE IF r.fault = "s1" \/ r.ncells < 2 THEN Raised({1})
    ELSE extract_fields(r, search_term, find_title_url(r))

\* `except Exception as e: ... return None`
except_return_none(b) == IF b.exc THEN [b EXCEPT !.exc = FALSE, !.ret = NoAuction] ELSE b

\* A variant of extract_auction_from_row that lets exceptions escape.
extract_auction_from_row_uncaught(r, search_term) == extract_body(r, search_term)

\* extract_auction_from_row: the try block and its except clause.
extract_auction_from_row(r, search_term) ==
    except_return_none(extract_body(r, search_term))

(***************************************************************************)
(* The debug tool's extractor (comprehensive_debug.py)                     *)
(***************************************************************************)

\* `if not auction_url:` Strategy 3, on what Strategy 2 left behind.
strategy3_debug(r, s2) ==
    IF ~Truthy(s2.url) THEN WithTiers(strategy3(r, s2.title, s2.url), {1, 2, 3}) ELSE s2

\* Title and URL discovery of extract_auction_from_row_comprehensive.
find_title_url_debug(r) ==
    IF Len(Anchors1(r)) > 0 THEN strategy1(Anchors1(r)[1])
    ELSE IF r.fault # "s2" /\ Len(r.clickables) > 0
    THEN strategy4(strategy3_debug(r, strategy2(r.clickables[1], r.text1)), r.text1)
    ELSE strategy4(strategy3_debug(r, [title |-> "", url |-> "", tiers |-> {1, 2}]),
                   r.text1)

\* The auction_data dictionary of the debug extractor.
make_auction_data_debug(r, search_term, row_number, found) ==
    [exc |-> FALSE,
     ret |-> [title |-> found.title,
              url |-> clean_url(found.url),
              current_bid |-> Strip(r.price),
              end_time |-> Strip(r.ends),
              location |-> Strip(r.loc),
              condition |-> Strip(r.cond),
              image_url |-> read_image_url(r),
              search_term |-> search_term,
              row_number |-> row_number],
     tiers |-> found.tiers,
     downloads |-> <<>>]

extract_fields_debug(r, search_term, row_number, found) ==
    IF r.fault = "fields" \/ r.ncells < 7 THEN Raised(found.tiers)
    ELSE make_auction_data_debug(r, search_term, row_number, found)

\* extract_auction_from_row_comprehensive, its `except Exception` included.
extract_auction_from_row_comprehensive(r, search_term, row_number) ==
    except_return_none(
        IF r.fault = "cells" THEN Raised({})
        ELSE IF too_few_cells(r) THEN ReturnedNone
        ELSE IF r.fault = "s1" \/ r.ncells < 2 THEN Raised({1})
        ELSE extract_fields_debug(r, search_term, row_number, find_title_url_debug(r)))

(***************************************************************************)
(* meets_criteria and remove_duplicates                                    *)
(***************************************************************************)

\* any(x.lower() in text for x in allowed)
AnyContained(allowed, text) ==
    \E i \in 1..Len(allowed) : Contains(text, Lower(allowed[i]))

\* A variant of meets_criteria that compares without lower-casing.
meets_criteria_case_sensitive(auction_data) ==
    /\ Truthy(auction_data.title) /\ Truthy(auction_data.location)
    /\ \E i \in 1..Len(CINCINNATI_LOCATIONS) :
          Contains(auction_data.location, CINCINNATI_LOCATIONS[i])
    /\ \E i \in 1..Len(FILTER_CONDITIONS) :
          Contains(auction_data.condition, FILTER_CONDITIONS[i])

meets_criteria(auction_data) ==
    IF ~Truthy(auction_data.title) \/ ~Truthy(auction_data.location) THEN FALSE
    ELSE IF ~AnyContained(CINCINNATI_LOCATIONS, Lower(auction_data.location)) THEN FALSE
    ELSE IF ~AnyContained(FILTER_CONDITIONS, Lower(auction_data.condition)) THEN FALSE
    ELSE TRUE

\* The loop of remove_duplicates from index i on.
RECURSIVE dedupe_loop(_, _, _, _, _)
dedupe_step(auctions, i, seen_urls, seen_titles, unique_auctions, auction, url, title) ==
    IF Truthy(url) /\ url \notin seen_urls
    THEN dedupe_loop(auctions, i + 1, seen_urls \cup {url}, seen_titles,
                     Append(unique_auctions, auction))
    ELSE IF ~Truthy(url) /\ title # "" /\ title \notin seen_titles
    THEN dedupe_loop(auctions, i + 1, seen_urls, seen_titles \cup {title},
                     Append(unique_auctions, auction))
    ELSE dedupe_loop(auctions, i + 1, seen_urls, seen_titles, unique_auctions)

dedupe_loop(auctions, i, seen_urls, seen_titles, unique_auctions) ==
    IF i > Len(auctions) THEN unique_auctions
    ELSE dedupe_step(auctions, i, seen_urls, seen_titles, unique_auctions,
                     auctions[i], auctions[i].url, Strip(Lower(auctions[i].title)))

\* A variant of the loop that drops duplicates from the list it iterates
\* over, so that the record after a dropped one is never examined.
RECURSIVE dedupe_loop_skip(_, _, _, _, _)
dedupe_loop_skip(auctions, i, seen_urls, seen_titles, unique_auctions) ==
    IF i > Len(auctions) THEN unique_auctions
    ELSE LET auction == auctions[i]
             url == auction.url
             title == Strip(Lower(auction.title))
             rest == IF i < Len(auctions) THEN <<auctions[i + 1]>> ELSE <<>>
         IN  IF Truthy(url) /\ url \notin seen_urls
             THEN dedupe_loop_skip(auctions, i + 1, seen_urls \cup {url}, seen_titles,
                                   Append(unique_auctions, auction))
             ELSE IF ~Truthy(url) /\ title # "" /\ title \notin seen_titles
             THEN dedupe_loop_skip(auctions, i + 1, seen_urls, seen_titles \cup {title},
                                   Append(unique_auctions, auction))
             ELSE dedupe_loop_skip(auctions, i + 2, seen_urls, seen_titles,
                                   unique_auctions \o rest)

remove_duplicates_skip(auctions) == dedupe_loop_skip(auctions, 1, {}, {}, <<>>)

\* A variant that keeps the last record of each key instead of the first.
RECURSIVE Reverse(_)
Reverse(q) == IF q = <<>> THEN <<>> ELSE Append(Reverse(Tail(q)), Head(q))

remove_duplicates_last(auctions) == Reverse(dedupe_loop(Reverse(auctions), 1, {}, {}, <<>>))

remove_duplicates(auctions) == dedupe_loop(auctions, 1, {}, {}, <<>>)

(***************************************************************************)
(* Grouping and ordering of the report (email_sender.py)                   *)
(***************************************************************************)

\* A variant of parse_end_time that does not lower-case the text.
parse_end_time_case_sensitive(auction) ==
    IF Contains(auction.end_time, "today") THEN 0
    ELSE IF Contains(auction.end_time, "tomorrow") THEN 1
    ELSE IF Contains(auction.end_time, "sunday") THEN 2
    ELSE IF Contains(auction.end_time, "monday") THEN 3
    ELSE IF Contains(auction.end_time, "tuesday") THEN 4
    ELSE IF Contains(auction.end_time, "wednesday") THEN 5
    ELSE IF Contains(auction.end_time, "thursday") THEN 6
    ELSE IF Contains(auction.end_time, "friday") THEN 7
    ELSE IF Contains(auction.end_time, "saturday") THEN 8
    ELSE 9

\* The chain of tests of parse_end_time on the lower-cased text.
end_time_rank(end_time) ==
    IF Contains(end_time, "today") THEN 0
    ELSE IF Contains(end_time, "tomorrow") THEN 1
    ELSE IF Contains(end_time, "sunday") THEN 2
    ELSE IF Contains(end_time, "monday") THEN 3
    ELSE IF Contains(end_time, "tuesday") THEN 4
    ELSE IF Contains(end_time, "wednesday") THEN 5
    ELSE IF Contains(end_time, "thursday") THEN 6
    ELSE IF Contains(end_time, "friday") THEN 7
    ELSE IF Contains(end_time, "saturday") THEN 8
    ELSE 9

\* parse_end_time(auction): the sort key, from auction.get('end_time', '').lower()
parse_end_time(auction) ==
    end_time_rank(Lower(IF "end_time" \in DOMAIN auction THEN auction.end_time ELSE ""))

\* sorted(auctions, key=parse_end_time) is stable: each record is placed
\* behind the records before it whose key is not larger.
RECURSIVE insert_by_key(_, _)
insert_by_key(q, x) ==
    IF Len(q) = 0 THEN <<x>>
    ELSE IF parse_end_time(Head(q)) <= parse_end_time(x)
    THEN <<Head(q)>> \o insert_by_key(Tail(q), x)
    ELSE <<x>> \o q

RECURSIVE sorted_from(_, _, _)
sorted_from(auctions, i, done) ==
    IF i > Len(auctions) THEN done
    ELSE sorted_from(auctions, i + 1, insert_by_key(done, auctions[i]))

sort_auctions_by_end_time(auctions) == sorted_from(auctions, 1, <<>>)

\* auction.get('search_term', 'Unknown')
get_search_term(auction) ==
    IF "search_term" \in DOMAIN auction THEN auction.search_term ELSE "Unknown"

\* grouped[search_term].append(auction), after `grouped[search_term] = []`
\* for a new key. The dict is the list of its items in insertion order.
grouped_append(grouped, search_term, auction) ==
    IF \E k \in 1..Len(grouped) : grouped[k].search_term = search_term
    THEN [k \in 1..Len(grouped) |->
            IF grouped[k].search_term = search_term
            THEN [grouped[k] EXCEPT !.auctions = Append(@, auction)]
            ELSE grouped[k]]
    ELSE Append(grouped, [search_term |-> search_term, auctions |-> <<auction>>])

\* `for auction in auctions` of group_auctions_by_search_term, from index i on.
RECURSIVE grouped_from(_, _, _)
grouped_from(auctions, i, grouped) ==
    IF i > Len(auctions) THEN grouped
    ELSE grouped_from(auctions, i + 1,
                      grouped_append(grouped, get_search_term(auctions[i]), auctions[i]))

\* "Sort each group by end time"
sort_groups(grouped) ==
    [k \in 1..Len(grouped) |->
        [grouped[k] EXCEPT !.auctions = sort_auctions_by_end_time(@)]]

group_auctions_by_search_term(auctions) == sort_groups(grouped_from(auctions, 1, <<>>))

(***************************************************************************)
(* Date window and search request                                          *)
(*                                                                         *)
(* The clock is a day ordinal: day 0 is Monday 2024-01-01.                 *)
(***************************************************************************)

\* datetime.weekday(): Monday = 0 .. Sunday = 6
weekday(d) == d % 7

IsLeap(y) == (y % 4 = 0 /\ y % 100 # 0) \/ y % 400 = 0
DaysInYear(y) == IF IsLeap(y) THEN 366 ELSE 365
DaysInMonth(y, m) ==
    IF m = 2 THEN (IF IsLeap(y) THEN 29 ELSE 28)
    ELSE IF m \in {4, 6, 9, 11} THEN 30 ELSE 31

\* Calendar date of day ordinal d >= 0, counting years from y and months from m.
RECURSIVE CivilFrom(_, _, _)
CivilFrom(d, y, m) ==
    IF d >= DaysInYear(y) /\ m = 1 THEN CivilFrom(d - DaysInYear(y), y + 1, 1)
    ELSE IF d >= DaysInMonth(y, m) THEN CivilFrom(d - DaysInMonth(y, m), y, m + 1)
    ELSE [year |-> y, month |-> m, day |-> d + 1]

Pad2(n) == IF n < 10 THEN "0" \o ToString(n) ELSE ToString(n)

\* d.strftime('%Y-%m-%dT04:00:00.000Z')
format_window(c) ==
    ToString(c.year) \o "-" \o Pad2(c.month) \o "-" \o Pad2(c.day) \o "T04:00:00.000Z"

strftime_window(d) == format_window(CivilFrom(d, 2024, 1))

\* A variant of days_since_sunday that counts from Monday.
days_since_monday(today) == weekday(today)

\* get_week_date_range with datetime.now() = today: (sunday_str, next_sunday_str)
days_since_sunday(today) == (weekday(today) + 1) % 7

week_from(sunday) == <<strftime_window(sunday), strftime_window(sunday + 7)>>

get_week_date_range(today) == week_from(today - days_since_sunday(today))

\* The search_params object of build_search_url, built at clock value today.
search_params(search_term, range) ==
    [searchTerm |-> search_term,
     locations |-> CINCINNATI_LOCATIONS,
     conditions |-> FILTER_CONDITIONS,
     sort |-> "DATE_ASC",
     newerThan |-> range[1],
     olderThan |-> range[2],
     ended |-> FALSE]

build_search_params(search_term, today) ==
    search_params(search_term, get_week_date_range(today))

\* json.dumps of a str: quotes around it, '"' and '\' escaped (the text is
\* ASCII throughout).
RECURSIVE json_escape(_)
json_escape(s) ==
    IF s = "" THEN ""
    ELSE (IF CharAt(s, 1) \in {"\"", "\\"} THEN "\\" ELSE "")
         \o CharAt(s, 1) \o json_escape(SubSeq(s, 2, Len(s)))

json_string(s) == "\"" \o json_escape(s) \o "\""

\* The texts of a list joined by the separator.
RECURSIVE join(_, _)
join(texts, sep) ==
    IF Len(texts) = 0 THEN ""
    ELSE IF Len(texts) = 1 THEN texts[1]
    ELSE texts[1] \o sep \o join(Tail(texts), sep)

\* json.dumps of a list of str with separators=(',', ':')
json_list(q) == "[" \o join([i \in 1..Len(q) |-> json_string(q[i])], ",") \o "]"

\* A variant that serializes the keys in alphabetical order (sort_keys=True).
search_params_items_sorted(p) ==
    <<"\"conditions\":" \o json_list(p.conditions),
      "\"ended\":" \o (IF p.ended THEN "true" ELSE "false"),
      "\"locations\":" \o json_list(p.locations),
      "\"newerThan\":" \o json_string(p.newerThan),
      "\"olderThan\":" \o json_string(p.olderThan),
      "\"searchTerm\":" \o json_string(p.searchTerm),
      "\"sort\":" \o json_string(p.sort)>>

\* The items of the search_params dict in insertion order, which json.dumps
\* follows, each serialized as "key":value.
search_params_items(p) ==
    <<"\"searchTerm\":" \o json_string(p.searchTerm),
      "\"locations\":" \o json_list(p.locations),
      "\"conditions\":" \o json_list(p.conditions),
      "\"sort\":" \o json_string(p.sort),
      "\"newerThan\":" \o json_string(p.newerThan),
      "\"olderThan\":" \o json_string(p.olderThan),
      "\"ended\":" \o (IF p.ended THEN "true" ELSE "false")>>

\* json.dumps(search_params, separators=(',', ':'))
json_dumps(p) == "{" \o join(search_params_items(p), ",") \o "}"

\* The printable ASCII characters in code order: codes 32 to 95, and codes
\* 97 to 126 (code 96, the grave accent, occurs in no text of the model).
AsciiLow == " !\"#$%&'()*+,-./0123456789:;<=>?@ABCDEFGHIJKLMNOPQRSTUVWXYZ[\\]^_"
AsciiHigh == "abcdefghijklmnopqrstuvwxyz{|}~"

\* Index of character c in text t.
IndexIn(t, c) == CHOOSE i \in 1..Len(t) : CharAt(t, i) = c

\* str.encode(): the byte of an ASCII character.
Code(c) == IF Contains(AsciiLow, c) THEN 31 + IndexIn(AsciiLow, c) ELSE 96 + IndexIn(AsciiHigh, c)

B64Alphabet == "ABCDEFGHIJKLMNOPQRSTUVWXYZabcdefghijklmnopqrstuvwxyz0123456789+/"

B64Char(k) == CharAt(B64Alphabet, k + 1)

\* The four characters for the 24 bits n, of which the last pad sextets are
\* padding.
Quad(n, pad) ==
    B64Char(n \div 262144) \o B64Char((n \div 4096) % 64)
    \o (IF pad = 2 THEN "=" ELSE B64Char((n \div 64) % 64))
    \o (IF pad >= 1 THEN "=" ELSE B64Char(n % 64))

\* base64.b64encode(s.encode()).decode(): every 3 bytes give 4 characters,
\* the last group is padded. A text of more than 3 bytes is encoded as two
\* parts, the first a whole number of groups.
RECURSIVE b64encode(_)
b64_parts(s, h) == b64encode(SubSeq(s, 1, h)) \o b64encode(SubSeq(s, h + 1, Len(s)))

b64encode(s) ==
    IF s = "" THEN ""
    ELSE IF Len(s) = 1 THEN Quad(Code(CharAt(s, 1)) * 65536, 2)
    ELSE IF Len(s) = 2
    THEN Quad(Code(CharAt(s, 1)) * 65536 + Code(CharAt(s, 2)) * 256, 1)
    ELSE IF Len(s) = 3
    THEN Quad(Code(CharAt(s, 1)) * 65536 + Code(CharAt(s, 2)) * 256 + Code(CharAt(s, 3)), 0)
    ELSE b64_parts(s, 3 * ((Len(s) \div 3 + 1) \div 2))

\* build_search_url(search_term) called at clock value today.
build_search_url(search_term, today) ==
    base_url \o "/archive?searchSettings="
    \o b64encode(json_dumps(build_search_params(search_term, today)))

(***************************************************************************)
(* search_auctions                                                         *)
(*                                                                         *)
(* A page is what the browser collaborator does for one search URL:        *)
(*   load   "ok", or "timeout" when driver.get raises                      *)
(*   found  for each table selector, in order: whether find_elements       *)
(*          raises, and the elements it returns                            *)
(***************************************************************************)

\* Number of entries of table_selectors
NumSelectors == 6

\* A variant of the selector loop that keeps the first matched element.
RECURSIVE select_rows_keep_first(_, _)
select_rows_keep_first(found, k) ==
    IF k > Len(found) THEN <<>>
    ELSE IF ~found[k].raises /\ Len(found[k].rows) > 1
    THEN found[k].rows
    ELSE select_rows_keep_first(found, k + 1)

\* The loop over table_selectors from selector k on: the rows to extract.
RECURSIVE select_rows(_, _)
select_rows(found, k) ==
    IF k > Len(found) THEN <<>>
    ELSE IF ~found[k].raises /\ Len(found[k].rows) > 1
    THEN Tail(found[k].rows)
    ELSE select_rows(found, k + 1)

\* "Extract data from each row": the loop over auction_rows from index i on,
\* with the list collected so far. An exception that escapes the extractor
\* ends the loop in search_auctions' `except Exception`.
\* `if auction_data and self.meets_criteria(auction_data)`
accepted(res) == res.ret # NoAuction /\ meets_criteria(res.ret)

RECURSIVE extract_rows(_, _, _, _)
extract_row_step(auction_rows, i, search_term, auctions, res) ==
    IF res.exc THEN auctions
    ELSE IF accepted(res)
    THEN extract_rows(auction_rows, i + 1, search_term, Append(auctions, res.ret))
    ELSE extract_rows(auction_rows, i + 1, search_term, auctions)

extract_rows(auction_rows, i, search_term, auctions) ==
    IF i > Len(auction_rows) THEN auctions
    ELSE extract_row_step(auction_rows, i, search_term, auctions,
                          extract_auction_from_row(auction_rows[i], search_term))

\* `if not auction_rows: return auctions`, else the extraction loop.
search_rows(auction_rows, search_term) ==
    IF Len(auction_rows) = 0 THEN <<>>
    ELSE extract_rows(auction_rows, 1, search_term, <<>>)

\* What search_auctions hands back: the list it returns, or the exception
\* that leaves it.
Returns(auctions) == [auctions |-> auctions, exc |-> "none"]

\* A variant of search_auctions in which a failed page load propagates.
search_auctions_reraise(page, search_term) ==
    IF page.load # "ok" THEN [auctions |-> <<>>, exc |-> "Exception"]
    ELSE Returns(search_rows(select_rows(page.found, 1), search_term))

\* search_auctions(search_term) on a page. driver.get raising (a timeout) is
\* absorbed by `except Exception`, and `return auctions` follows.
search_auctions(page, search_term) ==
    IF page.load # "ok" THEN Returns(<<>>)
    ELSE Returns(search_rows(select_rows(page.found, 1), search_term))

(***************************************************************************)
(* Inputs: rows, records and pages the environment can present             *)
(***************************************************************************)

\* Largest number of <td> cells of a row
MaxCells == 8

\* Largest number of data rows of a page given to search_auctions alone
MaxRows == 3

\* Largest number of data rows of a page in a full run
MaxRunRows == 1

\* Longest list given to remove_duplicates or to
\* group_auctions_by_search_term alone
MaxLen == 3

\* Most midnights that pass during one run
MaxTicks == 1

SeqsUpTo(S, n) == UNION {[1..k -> S] : k \in 0..n}

\* Raw URL candidates: absolute, leading '/', bare host, relative path,
\* script text with and without an embedded URL, 'http' without '://',
\* and no value.
RawUrls ==
    {"https://www.bidft.auction/itemDetails/55",
     "/item/55",
     "www.bidfta.com/item/55",
     "item/55",
     "javascript:void(0)",
     "javascript:go('https://www.bidft.auction/item/55')",
     "httpdocs/item/55",
     "",
     None}

\* Values of an onclick attribute
Onclicks ==
    {"window.location='https://www.bidft.auction/item/55'",
     "return onclick_open('http://www.bidft.auction/item/56', 1)",
     "openItem(55)"}

Link(c, t, h) == [cell |-> c, text |-> t, href |-> h]
Clickable(o, dh, du, h) == [onclick |-> o, dataHref |-> dh, dataUrl |-> du, href |-> h]

\* Link lists of a row: none, one link in the description cell, links in
\* other cells only.
LinkLists ==
    {<<>>}
    \cup {<<Link(1, t, h)>> : t \in {"Cat Tower", " Cat Tower\n", ""}, h \in RawUrls}
    \cup {<<Link(2, t, h)>> : t \in {"Amazon", ""}, h \in RawUrls}
    \cup {<<Link(0, "", h1), Link(2, "Amazon", h2)>> :
             h1 \in {"/photo/55", None},
             h2 \in {"https://www.bidft.auction/auction/9", "/itemDetails/55", "/help"}}
    \cup {<<Link(0, "", "/photo/55"), Link(2, "Amazon", h2), Link(3, "Bid", h3)>> :
             h2 \in {"/itemDetails/55", "/help"},
             h3 \in {"https://www.bidft.auction/auction/9"}}

ClickLists ==
    {<<>>}
    \cup {<<Clickable(o, None, None, None)>> : o \in Onclicks \cup {None}}
    \cup {<<Clickable(None, h, None, None)>> : h \in RawUrls \ {None}}
    \cup {<<Clickable("", "", h, None)>> : h \in RawUrls}
    \cup {<<Clickable(None, None, None, h)>> : h \in {"/item/55", ""}}

\* A well-formed row with a direct link, which passes the criteria.
DefaultRow ==
    [ncells |-> 7,
     text1 |-> "Cat Tower",
     cond |-> "Brand New",
     loc |-> "Cincinnati - School Road",
     ends |-> "Sunday 5PM",
     price |-> "$12.00",
     links |-> <<Link(1, "Cat Tower", "/item/55")>>,
     clickables |-> <<>>,
     img |-> <<>>,
     fault |-> "none",
     dl |-> "ok"]

Faults == {"none", "cells", "s1", "s2", "s3", "fields"}

ImgLists == {<<>>, <<"/img/55.jpg">>, <<"https://cdn.bidft.auction/55.jpg">>,
             <<"data:image/png;base64,AA">>, <<None>>}

\* Rows that vary the title/URL sources.
RowsUrl ==
    {[DefaultRow EXCEPT !.links = l, !.clickables = c, !.text1 = t] :
        l \in LinkLists, c \in ClickLists, t \in {"Cat Tower", "  Cat Tower \n", ""}}

\* Rows that vary the number of cells.
RowsCells ==
    {[DefaultRow EXCEPT !.ncells = n, !.links = l, !.clickables = c, !.img = i] :
        n \in 0..MaxCells,
        l \in {<<>>, <<Link(1, "Cat Tower", "/item/55")>>, <<Link(2, "Amazon", "/help")>>},
        c \in {<<>>, <<Clickable(None, "/item/55", None, None)>>},
        i \in {<<>>, <<"/img/55.jpg">>}}

\* Rows that vary the fixed columns, the image and the download.
RowsFields ==
    {[DefaultRow EXCEPT !.cond = c, !.loc = l, !.img = i, !.dl = d] :
        c \in {"Brand New", " appears new ", "Used"},
        l \in {"Cincinnati - School Road", " CINCINNATI - SCHOOL ROAD\n", "Dayton", ""},
        i \in ImgLists,
        d \in {"ok", "non200", "error"}}

\* Rows where the collaborator raises.
RowsFault ==
    {[DefaultRow EXCEPT !.fault = f, !.links = l, !.clickables = c, !.img = i] :
        f \in Faults,
        l \in {<<>>, <<Link(1, "Cat Tower", "/item/55")>>, <<Link(2, "Amazon", "/auction/9")>>},
        c \in {<<>>, <<Clickable(None, "/item/55", None, None)>>},
        i \in {<<>>, <<"/img/55.jpg">>}}

ExtractRows == RowsUrl \cup RowsCells \cup RowsFields \cup RowsFault

\* Records given to remove_duplicates: with and without url, titles that
\* differ only in case and surrounding whitespace, and no title.
DedupeRecords ==
    {[title |-> t, url |-> u, search_term |-> "Cat"] :
        t \in {"Cat Tower", " cat tower", ""},
        u \in {"https://www.bidft.auction/item/55", "https://www.bidft.auction/item/56",
               "", None}}

(***************************************************************************)
(* Initial values                                                          *)
(***************************************************************************)

ArgSets == [test : BOOLEAN, email_only : BOOLEAN]

\* Friday 2024-12-27 and Saturday 2024-12-28: the next midnight is a day
\* boundary inside the week, resp. the week (and soon the year) boundary.
StartDays == {361, 362}

\* The header row of the results table: <th> cells only.
Header == [DefaultRow EXCEPT !.ncells = 0, !.links = <<>>, !.text1 = ""]

\* A loaded page whose table holds a header and the given data rows: the
\* selectors 'table tbody tr', 'tbody tr', 'table tr' and 'tr' match them,
\* '[role="table"] [role="row"]' and '.table-row' match nothing.
PageOf(rows) ==
    [load |-> "ok",
     found |-> [k \in 1..NumSelectors |->
                  [raises |-> FALSE,
                   rows |-> IF k \in {4, 5} THEN <<>> ELSE <<Header>> \o rows]]]

\* A loaded page without any table row.
NoPage ==
    [load |-> "ok",
     found |-> [k \in 1..NumSelectors |-> [raises |-> FALSE, rows |-> <<>>]]]

\* A page whose load raises TimeoutException.
TimeoutPage == [NoPage EXCEPT !.load = "timeout"]

\* Rows of the pages given to search_auctions alone: two that pass the
\* criteria (with and without a url), one that fails them, a short row and
\* rows on which the collaborator raises.
SearchRows ==
    {DefaultRow,
     [DefaultRow EXCEPT !.links = <<>>, !.text1 = "Rug 5x7"],
     [DefaultRow EXCEPT !.loc = "Dayton"],
     [DefaultRow EXCEPT !.ncells = 3],
     [DefaultRow EXCEPT !.fault = "cells"],
     [DefaultRow EXCEPT !.fault = "s1"],
     [DefaultRow EXCEPT !.fault = "fields"]}

\* What one selector can do on a page: raise, match nothing, match one
\* element, match a header and a data row, or match two data rows (the
\* header sits in a <thead> the selector does not reach).
SelectorOutcomes ==
    {[raises |-> TRUE, rows |-> <<>>],
     [raises |-> FALSE, rows |-> <<>>],
     [raises |-> FALSE, rows |-> <<Header>>],
     [raises |-> FALSE, rows |-> <<Header, DefaultRow>>],
     [raises |-> FALSE,
      rows |-> <<DefaultRow, [DefaultRow EXCEPT !.links = <<>>, !.text1 = "Rug 5x7"]>>]}

\* Pages on which the selectors differ in what they match; the last three
\* match nothing or a header and a data row.
SelectorPages ==
    {[load |-> "ok", found |-> f] :
        f \in {g \in [1..NumSelectors -> SelectorOutcomes] :
                 \A k \in 4..NumSelectors :
                    g[k] \in {[raises |-> FALSE, rows |-> <<>>],
                              [raises |-> FALSE, rows |-> <<Header, DefaultRow>>]}}}

SearchPages ==
    {PageOf(rows) : rows \in SeqsUpTo(SearchRows, MaxRows)}
    \cup {NoPage, TimeoutPage}
    \cup SelectorPages

\* Rows of the pages of a full run: an item with a url and one without.
RunRows ==
    {DefaultRow,
     [DefaultRow EXCEPT !.links = <<>>, !.text1 = "Rug 5x7"]}

RunPages ==
    {PageOf(rows) : rows \in SeqsUpTo(RunRows, MaxRunRows)}
    \cup {NoPage, TimeoutPage}

RunInit ==
    /\ args \in ArgSets
    /\ now \in StartDays
    /\ ticks = 0
    /\ driver = "unset"
    /\ session = "none"
    /\ sessionsMade = 0
    /\ termIdx = 1
    /\ requests = <<>>
    /\ loads = <<>>
    /\ termResults = <<>>
    /\ all_auctions = <<>>
    /\ unique = <<>>
    /\ pending = "none"
    /\ origin = "none"
    /\ scrapeCalls = 0
    /\ reportMails = 0
    /\ failureMails = 0
    /\ exitStatus = -1

\* The entry points that check one function alone, while they are not in use.
CriteriaIdle == crecord = [title |-> "", location |-> "", condition |-> ""] /\ cverdict = FALSE

criteriaVars == <<crecord, cverdict>>

UrlIdle == uinput = [term |-> "", first |-> 0, second |-> 0] /\ uoutput = <<>>

urlVars == <<uinput, uoutput>>

GroupIdle == ginput = <<>> /\ goutput = <<>>

groupVars == <<ginput, goutput>>

DebugIdle ==
    /\ binput = [page |-> NoPage, max_auctions |-> [given |-> FALSE, n |-> 0]]
    /\ boutput = [processed |-> <<>>, valid_auctions |-> <<>>]

debugVars == <<binput, boutput>>

WeekIdle == winput = [now |-> 0, ignore_dates |-> FALSE] /\ woutput = <<>>

weekVars == <<winput, woutput>>

MailIdle ==
    /\ einput = [auctions |-> <<>>, on_disk |-> {}, unreadable |-> {}, smtp_ok |-> TRUE]
    /\ eoutput = [images |-> <<>>, attachments |-> <<>>, sent |-> FALSE]

reportVars == <<einput, eoutput>>

MoreInit == CriteriaIdle /\ UrlIdle /\ GroupIdle /\ DebugIdle /\ WeekIdle /\ MailIdle

moreVars == <<criteriaVars, urlVars, groupVars, debugVars, weekVars, reportVars>>

PureInit ==
    /\ row = DefaultRow
    /\ extracted = <<>>
    /\ dinput = <<>>
    /\ doutput = <<>>
    /\ spage = NoPage
    /\ sresult = <<>>
    /\ MoreInit

runVars == <<args, now, ticks, driver, session, sessionsMade, termIdx, requests,
             loads, termResults, all_auctions, unique, pending, origin, scrapeCalls,
             reportMails, failureMails, exitStatus>>

pureVars == <<row, extracted, dinput, doutput, spage, sresult, moreVars>>

(***************************************************************************)
(* Extraction of one row, by both extractors                               *)
(***************************************************************************)

InitExtract ==
    /\ pc = "extract"
    /\ RunInit /\ args = [test |-> FALSE, email_only |-> FALSE] /\ now = 361
    /\ PureInit!2 /\ PureInit!3 /\ PureInit!4 /\ PureInit!5 /\ PureInit!6
    /\ MoreInit
    /\ row \in ExtractRows

ExtractRow ==
    /\ pc = "extract"
    /\ extracted' = <<extract_auction_from_row(row, SEARCH_TERMS[1]),
                      extract_auction_from_row_comprehensive(row, SEARCH_TERMS[1], 1)>>
    /\ pc' = "extracted"
    /\ UNCHANGED <<runVars, row, dinput, doutput, spage, sresult, moreVars>>

NextExtract == ExtractRow

SpecExtract == InitExtract /\ [][NextExtract]_vars

(***************************************************************************)
(* remove_duplicates on its own                                            *)
(***************************************************************************)

InitDedupe ==
    /\ pc = "dedupe_input"
    /\ RunInit /\ args = [test |-> FALSE, email_only |-> FALSE] /\ now = 361
    /\ PureInit!1 /\ PureInit!2 /\ PureInit!4 /\ PureInit!5 /\ PureInit!6
    /\ MoreInit
    /\ dinput \in SeqsUpTo(DedupeRecords, MaxLen)

\* remove_duplicates(dinput), and remove_duplicates of its result.
Dedupe ==
    /\ pc = "dedupe_input"
    /\ doutput' = <<remove_duplicates(dinput), remove_duplicates(remove_duplicates(dinput))>>
    /\ pc' = "deduped"
    /\ UNCHANGED <<runVars, row, extracted, dinput, spage, sresult, moreVars>>

NextDedupe == Dedupe

SpecDedupe == InitDedupe /\ [][NextDedupe]_vars

(***************************************************************************)
(* search_auctions on its own                                              *)
(***************************************************************************)

InitSearch ==
    /\ pc = "search_input"
    /\ RunInit /\ args = [test |-> FALSE, email_only |-> FALSE] /\ now = 361
    /\ PureInit!1 /\ PureInit!2 /\ PureInit!3 /\ PureInit!4 /\ PureInit!6
    /\ MoreInit
    /\ spage \in SearchPages

Search ==
    /\ pc = "search_input"
    /\ sresult' = search_auctions(spage, SEARCH_TERMS[1]).auctions
    /\ pc' = "searched"
    /\ UNCHANGED <<runVars, row, extracted, dinput, doutput, spage, moreVars>>

NextSearch == Search

SpecSearch == InitSearch /\ [][NextSearch]_vars

(***************************************************************************)
(* meets_criteria on its own                                               *)
(***************************************************************************)

\* Records given to meets_criteria: titles and locations that are missing,
\* empty or present, locations and conditions inside and outside the allow
\* lists, in other letter case and with text around them.
CriteriaRecords ==
    [title : {"Cat Tower", " ", "", None},
     location : {"Cincinnati - School Road", "CINCINNATI - SCHOOL ROAD",
                 " springdale - commons drive (rear)", "Cincinnati", "Dayton", ""},
     condition : {"Brand New", "APPEARS NEW", "Like brand new!", "Used", ""}]

InitCriteria ==
    /\ pc = "criteria_input"
    /\ RunInit /\ args = [test |-> FALSE, email_only |-> FALSE] /\ now = 361
    /\ PureInit!1 /\ PureInit!2 /\ PureInit!3 /\ PureInit!4 /\ PureInit!5 /\ PureInit!6
    /\ cverdict = FALSE
    /\ crecord \in CriteriaRecords
    /\ UrlIdle /\ GroupIdle /\ DebugIdle /\ WeekIdle /\ MailIdle

MeetsCriteria ==
    /\ pc = "criteria_input"
    /\ cverdict' = meets_criteria(crecord)
    /\ pc' = "judged"
    /\ UNCHANGED <<runVars, row, extracted, dinput, doutput, spage, sresult, crecord,
                   urlVars, groupVars, debugVars, weekVars, reportVars>>

NextCriteria == MeetsCriteria

SpecCriteria == InitCriteria /\ [][NextCriteria]_vars

(***************************************************************************)
(* build_search_url on its own                                             *)
(***************************************************************************)

\* Search terms given to build_search_url: the configured ones, one with a
\* blank and one with characters json.dumps escapes.
UrlTerms == {SEARCH_TERMS[i] : i \in 1..Len(SEARCH_TERMS)} \cup {"Cat Tree", "12\" \\ Rug"}

\* Clock values of the calls: Tuesday 2024-12-24 to Tuesday 2024-12-31.
UrlDays == 358..365

InitUrl ==
    /\ pc = "url_input"
    /\ RunInit /\ args = [test |-> FALSE, email_only |-> FALSE] /\ now = 361
    /\ PureInit!1 /\ PureInit!2 /\ PureInit!3 /\ PureInit!4 /\ PureInit!5 /\ PureInit!6
    /\ CriteriaIdle /\ GroupIdle /\ DebugIdle /\ WeekIdle /\ MailIdle
    /\ uinput \in [term : UrlTerms, first : UrlDays, second : UrlDays]
    /\ uoutput = <<>>

\* Two calls of build_search_url for the same term.
BuildUrl ==
    /\ pc = "url_input"
    /\ uoutput' = <<build_search_url(uinput.term, uinput.first),
                    build_search_url(uinput.term, uinput.second)>>
    /\ pc' = "built"
    /\ UNCHANGED <<runVars, row, extracted, dinput, doutput, spage, sresult, criteriaVars,
                   uinput, groupVars, debugVars, weekVars, reportVars>>

NextUrl == BuildUrl

SpecUrl == InitUrl /\ [][NextUrl]_vars

(***************************************************************************)
(* group_auctions_by_search_term on its own                                *)
(***************************************************************************)

\* Records given to the grouping: two terms and no term; end times that
\* name today, a day in upper case, two days at once, and a date.
GroupRecords ==
    {[title |-> "A", end_time |-> e, search_term |-> "Cat"] :
        e \in {"Today 5PM", "Ends SUNDAY 8PM", "Saturday, not Sunday", "12/31 5PM"}}
    \cup {[title |-> "B", end_time |-> e, search_term |-> "Rug"] :
            e \in {"Today 5PM", "12/31 5PM"}}
    \cup {[title |-> "B", end_time |-> "Ends SUNDAY 8PM", search_term |-> "Cat"],
          [title |-> "C", end_time |-> "Friday noon"]}

InitGroup ==
    /\ pc = "group_input"
    /\ RunInit /\ args = [test |-> FALSE, email_only |-> FALSE] /\ now = 361
    /\ PureInit!1 /\ PureInit!2 /\ PureInit!3 /\ PureInit!4 /\ PureInit!5 /\ PureInit!6
    /\ CriteriaIdle /\ UrlIdle /\ DebugIdle /\ WeekIdle /\ MailIdle
    /\ ginput \in SeqsUpTo(GroupRecords, MaxLen)
    /\ goutput = <<>>

Group ==
    /\ pc = "group_input"
    /\ goutput' = group_auctions_by_search_term(ginput)
    /\ pc' = "grouped"
    /\ UNCHANGED <<runVars, row, extracted, dinput, doutput, spage, sresult, criteriaVars,
                   urlVars, ginput, debugVars, weekVars, reportVars>>

NextGroup == Group

SpecGroup == InitGroup /\ [][NextGroup]_vars

(***************************************************************************)
(* debug_search_term of the debug tool on its own                          *)
(***************************************************************************)

\* Number of entries of the debug tool's table_selectors
NumDebugSelectors == 5

\* The debug tool's loop over table_selectors from selector k on.
RECURSIVE select_rows_debug(_, _)
select_rows_debug(found, k) ==
    IF k > Len(found) THEN <<>>
    ELSE IF ~found[k].raises /\ Len(found[k].rows) > 1
    THEN Tail(found[k].rows)
    ELSE select_rows_debug(found, k + 1)

\* meets_criteria_debug: the same tests as meets_criteria, with printing.
meets_criteria_debug(auction_data) ==
    IF ~Truthy(auction_data.title) THEN FALSE
    ELSE IF ~Truthy(auction_data.location) THEN FALSE
    ELSE IF ~AnyContained(CINCINNATI_LOCATIONS, Lower(auction_data.location)) THEN FALSE
    ELSE IF ~AnyContained(FILTER_CONDITIONS, Lower(auction_data.condition)) THEN FALSE
    ELSE TRUE

\* `max_auctions if max_auctions else len(auction_rows)`: None and 0 are
\* both falsy.
max_to_process(max_auctions, auction_rows) ==
    IF max_auctions.given /\ max_auctions.n # 0 THEN max_auctions.n
    ELSE Len(auction_rows)

\* auction_rows[:stop], stop of either sign.
slice_to(auction_rows, stop) ==
    IF stop >= Len(auction_rows) THEN auction_rows
    ELSE IF stop >= 0 THEN SubSeq(auction_rows, 1, stop)
    ELSE IF Len(auction_rows) + stop > 0
    THEN SubSeq(auction_rows, 1, Len(auction_rows) + stop)
    ELSE <<>>

\* The loop `for i, row in enumerate(auction_rows[:max_to_process])` from
\* index i on, with the row numbers extracted and the list collected so far.
RECURSIVE debug_rows(_, _, _, _)
debug_row_step(rows, i, search_term, out, res) ==
    IF res.ret # NoAuction /\ meets_criteria_debug(res.ret)
    THEN debug_rows(rows, i + 1, search_term,
                    [processed |-> Append(out.processed, i),
                     valid_auctions |-> Append(out.valid_auctions, res.ret)])
    ELSE debug_rows(rows, i + 1, search_term,
                    [out EXCEPT !.processed = Append(out.processed, i)])

debug_rows(rows, i, search_term, out) ==
    IF i > Len(rows) THEN out
    ELSE debug_row_step(rows, i, search_term, out,
                        extract_auction_from_row_comprehensive(rows[i], search_term, i))

\* `if not auction_rows: return []`, else the loop over the limited rows.
debug_process(auction_rows, search_term, max_auctions) ==
    IF Len(auction_rows) = 0 THEN [processed |-> <<>>, valid_auctions |-> <<>>]
    ELSE debug_rows(slice_to(auction_rows, max_to_process(max_auctions, auction_rows)),
                    1, search_term, [processed |-> <<>>, valid_auctions |-> <<>>])

\* debug_search_term(search_term, max_auctions=...) on a page; a failed
\* load ends in `except Exception: ... return []`.
debug_search_term(page, search_term, max_auctions) ==
    IF page.load # "ok" THEN [processed |-> <<>>, valid_auctions |-> <<>>]
    ELSE debug_process(select_rows_debug(page.found, 1), search_term, max_auctions)

\* A loaded page as the debug tool's selectors see it: 'table tbody tr',
\* 'tbody tr', 'table tr' and '[role="row"]' match the header and the data
\* rows, '.auction-row' matches nothing.
DebugPageOf(rows) ==
    [load |-> "ok",
     found |-> [k \in 1..NumDebugSelectors |->
                  [raises |-> FALSE,
                   rows |-> IF k = 4 THEN <<>> ELSE <<Header>> \o rows]]]

\* Rows of the debug tool's pages: one that passes the criteria, one that
\* fails them, and a short row.
DebugRows ==
    {DefaultRow,
     [DefaultRow EXCEPT !.loc = "Dayton"],
     [DefaultRow EXCEPT !.ncells = 3]}

DebugPages ==
    {DebugPageOf(rows) : rows \in SeqsUpTo(DebugRows, MaxRows)}
    \cup {NoPage, TimeoutPage}

\* --max-auctions: absent, or an integer from -1 to one more than the page
\* can hold.
MaxAuctionsOptions ==
    {[given |-> FALSE, n |-> 0]}
    \cup {[given |-> TRUE, n |-> n] : n \in -1..(MaxRows + 1)}

InitDebug ==
    /\ pc = "debug_input"
    /\ RunInit /\ args = [test |-> FALSE, email_only |-> FALSE] /\ now = 361
    /\ PureInit!1 /\ PureInit!2 /\ PureInit!3 /\ PureInit!4 /\ PureInit!5 /\ PureInit!6
    /\ CriteriaIdle /\ UrlIdle /\ GroupIdle /\ WeekIdle /\ MailIdle
    /\ binput \in [page : DebugPages, max_auctions : MaxAuctionsOptions]
    /\ boutput = [processed |-> <<>>, valid_auctions |-> <<>>]

DebugSearchTerm ==
    /\ pc = "debug_input"
    /\ boutput' = debug_search_term(binput.page, "Cat", binput.max_auctions)
    /\ pc' = "debugged"
    /\ UNCHANGED <<runVars, row, extracted, dinput, doutput, spage, sresult, criteriaVars,
                   urlVars, groupVars, binput, weekVars, reportVars>>

NextDebug == DebugSearchTerm

SpecDebug == InitDebug /\ [][NextDebug]_vars

(***************************************************************************)
(* get_week_date_range of the scraper and of the debug tool on its own     *)
(***************************************************************************)

\* The debug tool's window in default mode: Sunday to Saturday.
week_from_debug(sunday) == <<strftime_window(sunday), strftime_window(sunday + 6)>>

\* The debug tool's wide window: 30 days to either side of now.
wide_range(today) == <<strftime_window(today - 30), strftime_window(today + 30)>>

\* ComprehensiveDebugger.get_week_date_range(ignore_dates)
get_week_date_range_debug(today, ignore_dates) ==
    IF ignore_dates THEN wide_range(today)
    ELSE week_from_debug(today - days_since_sunday(today))

\* Clock values from Wednesday 2024-01-31 to Sunday 2025-03-16: the leap
\* day, every month boundary of a year and a year boundary lie inside.
WeekDays == 30..440

InitWeek ==
    /\ pc = "week_input"
    /\ RunInit /\ args = [test |-> FALSE, email_only |-> FALSE] /\ now = 361
    /\ PureInit!1 /\ PureInit!2 /\ PureInit!3 /\ PureInit!4 /\ PureInit!5 /\ PureInit!6
    /\ CriteriaIdle /\ UrlIdle /\ GroupIdle /\ DebugIdle /\ MailIdle
    /\ winput \in [now : WeekDays, ignore_dates : BOOLEAN]
    /\ woutput = <<>>

\* Both tools compute their window at the same clock value.
WeekRange ==
    /\ pc = "week_input"
    /\ woutput' = <<get_week_date_range(winput.now),
                    get_week_date_range_debug(winput.now, winput.ignore_dates)>>
    /\ pc' = "ranged"
    /\ UNCHANGED <<runVars, row, extracted, dinput, doutput, spage, sresult, criteriaVars,
                   urlVars, groupVars, debugVars, winput, reportVars>>

NextWeek == WeekRange

SpecWeek == InitWeek /\ [][NextWeek]_vars

(***************************************************************************)
(* send_email: the images of the report                                    *)
(***************************************************************************)

\* hash(v) as text; different values have different hashes.
py_hash(v) == "h(" \o v \o ")"

\* f'image_{hash(auction.get("url", ""))}'
content_id(auction) == "image_" \o py_hash(auction.url)

\* auction.get('image_path') and os.path.exists(auction['image_path'])
image_on_disk(auction, on_disk) ==
    Truthy(auction.image_path) /\ auction.image_path \in on_disk

\* The src of an external image: made absolute unless it has a scheme.
external_src(img_url) ==
    IF StartsWith(img_url, "http://") \/ StartsWith(img_url, "https://") THEN img_url
    ELSE IF StartsWith(img_url, "//") THEN "https:" \o img_url
    ELSE "https://www.bidft.auction" \o img_url

\* "Image handling with clickable link": the item and what its image_html
\* shows.
image_html(auction, on_disk) ==
    IF image_on_disk(auction, on_disk)
    THEN [item |-> auction, kind |-> "inline", src |-> "cid:" \o content_id(auction)]
    ELSE IF Truthy(auction.image_url)
    THEN [item |-> auction, kind |-> "external",
          src |-> external_src(auction.image_url)]
    ELSE [item |-> auction, kind |-> "none", src |-> ""]

\* The image of every item of the HTML, in the order of the sections and of
\* the items within a section.
RECURSIVE html_images(_, _, _)
html_images(grouped_auctions, k, on_disk) ==
    IF k > Len(grouped_auctions) THEN <<>>
    ELSE [i \in 1..Len(grouped_auctions[k].auctions) |->
             image_html(grouped_auctions[k].auctions[i], on_disk)]
         \o html_images(grouped_auctions, k + 1, on_disk)

\* generate_html_email(auctions), as far as images go.
generate_html_email(auctions, on_disk) ==
    IF Len(auctions) = 0 THEN <<>>
    ELSE html_images(group_auctions_by_search_term(auctions), 1, on_disk)

\* "Attach images": the loop of send_email from index i on. A file that
\* cannot be read is skipped with a warning.
RECURSIVE attach_images(_, _, _, _)
attach_images(auctions, i, on_disk, unreadable) ==
    IF i > Len(auctions) THEN <<>>
    ELSE IF image_on_disk(auctions[i], on_disk) /\ auctions[i].image_path \notin unreadable
    THEN <<[content_id |-> "<" \o content_id(auctions[i]) \o ">",
            data |-> auctions[i].image_path]>>
         \o attach_images(auctions, i + 1, on_disk, unreadable)
    ELSE attach_images(auctions, i + 1, on_disk, unreadable)

\* send_email(auctions): the message and the result; a failure of the SMTP
\* exchange ends in `except Exception: ... return False`.
send_email(auctions, on_disk, unreadable, smtp_ok) ==
    [images |-> generate_html_email(auctions, on_disk),
     attachments |-> attach_images(auctions, 1, on_disk, unreadable),
     sent |-> smtp_ok]

\* Records of a report: two titles, each with its own image file or none,
\* with and without a url.
MailRecord(title, url, image_path) ==
    [title |-> title, url |-> url, image_url |-> "https://www.bidft.auction/img/55.jpg",
     image_path |-> image_path, end_time |-> "Today 5PM", search_term |-> "Cat"]

MailRecords ==
    {MailRecord("Cat Tower", "https://www.bidft.auction/item/55", p) :
        p \in {None, "images/1.jpg"}}
    \cup {MailRecord("Cat Tower", "", p) : p \in {None, "images/1.jpg"}}
    \cup {MailRecord("Rug 5x7", "https://www.bidft.auction/item/56", p) :
            p \in {None, "images/2.jpg"}}
    \cup {MailRecord("Rug 5x7", "", p) : p \in {None, "images/2.jpg"}}

InitMail ==
    /\ pc = "report_input"
    /\ RunInit /\ args = [test |-> FALSE, email_only |-> FALSE] /\ now = 361
    /\ PureInit!1 /\ PureInit!2 /\ PureInit!3 /\ PureInit!4 /\ PureInit!5 /\ PureInit!6
    /\ CriteriaIdle /\ UrlIdle /\ GroupIdle /\ DebugIdle /\ WeekIdle
    /\ \E q \in SeqsUpTo(MailRecords, MaxLen) :
       \E missing \in {{}, {"images/2.jpg"}} :
       \E unreadable \in {{}, {"images/1.jpg"}} :
       \E smtp_ok \in BOOLEAN :
          einput = [auctions |-> remove_duplicates(q),
                    on_disk |-> {"images/1.jpg", "images/2.jpg"} \ missing,
                    unreadable |-> unreadable,
                    smtp_ok |-> smtp_ok]
    /\ eoutput = [images |-> <<>>, attachments |-> <<>>, sent |-> FALSE]

SendReport ==
    /\ pc = "report_input"
    /\ eoutput' = send_email(einput.auctions, einput.on_disk, einput.unreadable,
                             einput.smtp_ok)
    /\ pc' = "reported"
    /\ UNCHANGED <<runVars, row, extracted, dinput, doutput, spage, sresult, criteriaVars,
                   urlVars, groupVars, debugVars, weekVars, einput>>

NextMail == SendReport

SpecMail == InitMail /\ [][NextMail]_vars

(***************************************************************************)
(* A run of main                                                           *)
(***************************************************************************)

clockVars == <<now, ticks>>
browserVars == <<driver, session, sessionsMade>>
scrapeVars == <<termIdx, requests, loads, termResults, all_auctions, unique>>
excVars == <<pending, origin>>
mailVars == <<reportMails, failureMails>>

Init == pc = "main" /\ RunInit /\ PureInit

\* An exception of the given kind is raised at the given place and leaves
\* scrape_all_searches through its finally clause (inTry) or directly.
Raise(kind, where, inTry) ==
    /\ pending' = kind
    /\ origin' = where
    /\ pc' = IF inTry THEN "finally" ELSE "raised"

\* main: dispatch on the flags. --email-only sends the sample report and
\* exits; otherwise run_test_mode or run_full_scraping constructs the scraper
\* and calls scrape_all_searches.
MainDispatch ==
    /\ pc = "main"
    /\ IF args.email_only
       THEN \E success \in BOOLEAN :
               /\ reportMails' = reportMails + 1
               /\ exitStatus' = IF success THEN 0 ELSE 1
               /\ pc' = "done"
               /\ UNCHANGED scrapeCalls
       ELSE /\ scrapeCalls' = scrapeCalls + 1
            /\ pc' = "setup_install"
            /\ UNCHANGED <<reportMails, exitStatus>>
    /\ UNCHANGED <<args, clockVars, browserVars, scrapeVars, excVars, failureMails,
                   pureVars>>

\* setup_driver up to Service(ChromeDriverManager().install()): reading
\* SCRAPING_CONFIG['headless'] or installing the driver may raise.
SetupInstall ==
    /\ pc = "setup_install"
    /\ \E ok \in BOOLEAN :
          IF ok THEN pc' = "setup_chrome" /\ UNCHANGED excVars
          ELSE Raise("Exception", "setup_driver", FALSE)
    /\ UNCHANGED <<args, clockVars, browserVars, scrapeVars, scrapeCalls, mailVars,
                   exitStatus, pureVars>>

\* self.driver = webdriver.Chrome(...): the browser session is created, or
\* the call raises and there is none.
SetupChrome ==
    /\ pc = "setup_chrome"
    /\ \E ok \in BOOLEAN :
          IF ok
          THEN /\ session' = "open"
               /\ driver' = "set"
               /\ sessionsMade' = sessionsMade + 1
               /\ pc' = "setup_wait"
               /\ UNCHANGED excVars
          ELSE /\ Raise("Exception", "setup_driver", FALSE)
               /\ UNCHANGED browserVars
    /\ UNCHANGED <<args, clockVars, scrapeVars, scrapeCalls, mailVars, exitStatus,
                   pureVars>>

\* self.wait = WebDriverWait(self.driver, SCRAPING_CONFIG['wait_time']): the
\* last statement of setup_driver, which scrape_all_searches calls before
\* its try block.
SetupWait ==
    /\ pc = "setup_wait"
    /\ \E ok \in BOOLEAN :
          IF ok THEN pc' = "loop" /\ UNCHANGED excVars
          ELSE Raise("Exception", "setup_driver", FALSE)
    /\ UNCHANGED <<args, clockVars, browserVars, scrapeVars, scrapeCalls, mailVars,
                   exitStatus, pureVars>>

\* Midnight passes between two calls of build_search_url.
Tick ==
    /\ pc = "loop"
    /\ termIdx <= Len(SEARCH_TERMS)
    /\ ticks < MaxTicks
    /\ now' = now + 1
    /\ ticks' = ticks + 1
    /\ UNCHANGED <<pc, args, browserVars, scrapeVars, excVars, scrapeCalls, mailVars,
                   exitStatus, pureVars>>

\* How a page load ends, for the record kept in loads.
LoadKind(page) ==
    IF page.load # "ok" THEN page.load
    ELSE IF Len(select_rows(page.found, 1)) = 0 THEN "norows" ELSE "rows"

\* A variant of the loop body that puts a term's records in front of the
\* records of the earlier terms.
AfterSearch_prepend(page, res) ==
    /\ loads' = Append(loads, [session |-> session, load |-> LoadKind(page)])
    /\ IF res.exc = "none"
       THEN /\ termResults' = Append(termResults, res.auctions)
            /\ all_auctions' = res.auctions \o all_auctions
            /\ pc' = "delay"
            /\ UNCHANGED excVars
       ELSE /\ Raise(res.exc, "search", TRUE)
            /\ UNCHANGED <<termResults, all_auctions>>

\* What the loop body does with the outcome of search_auctions: extend
\* all_auctions and go on to the delay, or leave through finally.
AfterSearch(page, res) ==
    /\ loads' = Append(loads, [session |-> session, load |-> LoadKind(page)])
    /\ IF res.exc = "none"
       THEN /\ termResults' = Append(termResults, res.auctions)
            /\ all_auctions' = all_auctions \o res.auctions
            /\ pc' = "delay"
            /\ UNCHANGED excVars
       ELSE /\ Raise(res.exc, "search", TRUE)
            /\ UNCHANGED <<termResults, all_auctions>>

\* One iteration of `for search_term in SEARCH_TERMS` up to the delay:
\* search_auctions builds the request from the clock, loads the page and
\* returns its list, which is appended to all_auctions.
SearchTerm ==
    /\ pc = "loop"
    /\ termIdx <= Len(SEARCH_TERMS)
    /\ requests' = Append(requests, build_search_params(SEARCH_TERMS[termIdx], now))
    /\ \E page \in RunPages :
          AfterSearch(page, search_auctions(page, SEARCH_TERMS[termIdx]))
    /\ UNCHANGED <<args, clockVars, browserVars, termIdx, unique, scrapeCalls, mailVars,
                   exitStatus, pureVars>>

\* The user interrupts a search while the page loads: KeyboardInterrupt is
\* no Exception, so search_auctions does not absorb it.
SearchInterrupted ==
    /\ pc = "loop"
    /\ termIdx <= Len(SEARCH_TERMS)
    /\ requests' = Append(requests, build_search_params(SEARCH_TERMS[termIdx], now))
    /\ loads' = Append(loads, [session |-> session, load |-> "interrupted"])
    /\ Raise("KeyboardInterrupt", "search", TRUE)
    /\ UNCHANGED <<args, clockVars, browserVars, termIdx, termResults, all_auctions,
                   unique, scrapeCalls, mailVars, exitStatus, pureVars>>

\* A variant of the delay that quits the browser between two terms.
Delay_quits_browser ==
    /\ pc = "delay"
    /\ session' = "closed"
    /\ \E outcome \in {"none", "Exception", "KeyboardInterrupt"} :
          IF outcome = "none"
          THEN termIdx' = termIdx + 1 /\ pc' = "loop" /\ UNCHANGED excVars
          ELSE Raise(outcome, "delay", TRUE) /\ UNCHANGED termIdx
    /\ UNCHANGED <<args, clockVars, driver, sessionsMade, requests, loads, termResults,
                   all_auctions, unique, scrapeCalls, mailVars, exitStatus, pureVars>>

\* time.sleep(SCRAPING_CONFIG['delay_between_searches']): completes, raises
\* (the key is missing) or is interrupted.
Delay ==
    /\ pc = "delay"
    /\ \E outcome \in {"none", "Exception", "KeyboardInterrupt"} :
          IF outcome = "none"
          THEN termIdx' = termIdx + 1 /\ pc' = "loop" /\ UNCHANGED excVars
          ELSE Raise(outcome, "delay", TRUE) /\ UNCHANGED termIdx
    /\ UNCHANGED <<args, clockVars, browserVars, requests, loads, termResults,
                   all_auctions, unique, scrapeCalls, mailVars, exitStatus, pureVars>>

\* The loop is exhausted: the try block ends normally.
LoopDone ==
    /\ pc = "loop"
    /\ termIdx > Len(SEARCH_TERMS)
    /\ pc' = "finally"
    /\ UNCHANGED <<args, clockVars, browserVars, scrapeVars, excVars, scrapeCalls,
                   mailVars, exitStatus, pureVars>>

\* close_driver: `if self.driver: self.driver.quit()`
close_driver == session' = IF driver = "set" THEN "closed" ELSE session

\* finally: self.close_driver(), then the pending exception propagates or
\* the function goes on to remove duplicates.
Finally ==
    /\ pc = "finally"
    /\ close_driver
    /\ pc' = IF pending = "none" THEN "dedupe" ELSE "raised"
    /\ UNCHANGED <<args, clockVars, driver, sessionsMade, scrapeVars, excVars,
                   scrapeCalls, mailVars, exitStatus, pureVars>>

\* unique_auctions = self.remove_duplicates(all_auctions); return
RemoveDuplicates ==
    /\ pc = "dedupe"
    /\ unique' = remove_duplicates(all_auctions)
    /\ pc' = "returned"
    /\ UNCHANGED <<args, clockVars, browserVars, termIdx, requests, loads, termResults,
                   all_auctions, excVars, scrapeCalls, mailVars, exitStatus, pureVars>>

\* save_results_to_file(auctions) in run_full_scraping or run_test_mode:
\* writing the file may raise. run_test_mode then returns True.
SaveResults ==
    /\ pc = "returned"
    /\ \E ok \in BOOLEAN :
          IF ~ok THEN Raise("Exception", "save", FALSE) /\ UNCHANGED exitStatus
          ELSE IF args.test THEN pc' = "done" /\ exitStatus' = 0 /\ UNCHANGED excVars
          ELSE pc' = "email" /\ UNCHANGED <<excVars, exitStatus>>
    /\ UNCHANGED <<args, clockVars, browserVars, scrapeVars, scrapeCalls, mailVars,
                   pureVars>>

\* run_full_scraping: send_email(auctions), which catches its exceptions
\* and returns False; then the failure notification and return False.
SendEmail ==
    /\ pc = "email"
    /\ reportMails' = reportMails + 1
    /\ \E success \in BOOLEAN :
          IF success THEN exitStatus' = 0 /\ UNCHANGED failureMails
          ELSE exitStatus' = 1 /\ failureMails' = failureMails + 1
    /\ pc' = "done"
    /\ UNCHANGED <<args, clockVars, browserVars, scrapeVars, excVars, scrapeCalls,
                   pureVars>>

\* A variant of the exception handling that sends no failure notification.
HandleException_silent ==
    /\ pc = "raised"
    /\ exitStatus' = IF pending = "KeyboardInterrupt" THEN 0 ELSE 1
    /\ pc' = "done"
    /\ UNCHANGED <<args, clockVars, browserVars, scrapeVars, excVars, scrapeCalls,
                   mailVars, pureVars>>

\* An exception left scrape_all_searches or save_results_to_file.
\* run_full_scraping's `except Exception` tries the failure notification and
\* returns False; run_test_mode's returns False; main exits with status 1.
\* A KeyboardInterrupt reaches main, which exits with status 0.
HandleException ==
    /\ pc = "raised"
    /\ IF pending = "KeyboardInterrupt"
       THEN exitStatus' = 0 /\ UNCHANGED failureMails
       ELSE /\ exitStatus' = 1
            /\ failureMails' = IF args.test THEN failureMails ELSE failureMails + 1
    /\ pc' = "done"
    /\ UNCHANGED <<args, clockVars, browserVars, scrapeVars, excVars, scrapeCalls,
                   reportMails, pureVars>>

Next ==
    \/ MainDispatch
    \/ SetupInstall
    \/ SetupChrome
    \/ SetupWait
    \/ Tick
    \/ SearchTerm
    \/ SearchInterrupted
    \/ Delay
    \/ LoopDone
    \/ Finally
    \/ RemoveDuplicates
    \/ SaveResults
    \/ SendEmail
    \/ HandleException

Spec == Init /\ [][Next]_vars

(***************************************************************************)
(* Properties of the extractors (SpecExtract)                              *)
(***************************************************************************)

IsAbsoluteHttp(u) == StartsWith(u, "http://") \/ StartsWith(u, "https://")

\* C1: every record returned by extract_auction_from_row for a row with at
\* least 7 cells that has a non-empty url has a url starting with 'http://'
\* or 'https://', whatever raw URL candidate the fallback chain produced.
C1_UrlIsAbsolute ==
    (pc = "extracted" /\ row.ncells >= 7 /\ extracted[1].ret # NoAuction
        /\ Truthy(extracted[1].ret.url))
    => IsAbsoluteHttp(extracted[1].ret.url)

\* C7: for a row with fewer than 7 cells both extractors return None, run no
\* title/URL strategy and request no image download.
C7_ShortRowYieldsNone ==
    (pc = "extracted" /\ row.ncells < 7)
    => \A k \in 1..2 : /\ extracted[k].ret = NoAuction
                       /\ extracted[k].tiers = {}
                       /\ extracted[k].downloads = <<>>

\* A row of 6 cells that has a link in the description cell and an image.
C7_Witness ==
    /\ pc = "extracted"
    /\ row.ncells = 6
    /\ row.fault = "none"
    /\ \E i \in 1..Len(row.links) : row.links[i].cell = 1
    /\ Len(row.img) > 0
    /\ extracted[1].ret = NoAuction

(***************************************************************************)
(* Properties of remove_duplicates (SpecDedupe)                            *)
(***************************************************************************)

\* The de-duplication key of a record: its url when non-empty, else its
\* lower-cased, trimmed title.
Key(a) == IF Truthy(a.url) THEN <<"url", a.url>> ELSE <<"title", Strip(Lower(a.title))>>

\* Index of the earliest record of q with key k.
FirstIdx(q, k) == CHOOSE i \in 1..Len(q) : Key(q[i]) = k /\ \A j \in 1..(i - 1) : Key(q[j]) # k

\* C5: remove_duplicates is idempotent.
C5_Idempotent == pc = "deduped" => doutput[2] = doutput[1]

\* A list from which duplicates were dropped and url-bearing and url-less
\* records both survived.
C5_Witness ==
    /\ pc = "deduped"
    /\ Len(doutput[1]) < Len(dinput)
    /\ \E i, j \in 1..Len(doutput[1]) : Truthy(doutput[1][i].url) /\ ~Truthy(doutput[1][j].url)

RowFails(r, search_term) == too_few_cells(r) \/ extract_body(r, search_term).exc

\* The row is extracted and its record passes the filter.
RowKept(r, search_term) ==
    ~RowFails(r, search_term) /\ meets_criteria(extract_body(r, search_term).ret)

\* The records of the kept rows, in row order.
RecordsOf(rows, search_term) ==
    [k \in 1..Len(rows) |-> extract_body(rows[k], search_term).ret]

KeptRecords(rows, search_term) ==
    RecordsOf(SelectSeq(rows, LAMBDA r : RowKept(r, search_term)), search_term)

\* C8: a row whose extraction fails yields no record and does not stop the
\* extraction of the other rows: the term's result is exactly the records of
\* the non-failing rows that pass meets_criteria, in row order.
C8_FailingRowSkipped ==
    pc = "searched"
    => sresult = KeptRecords(select_rows(spage.found, 1), SEARCH_TERMS[1])

\* A page on which the collaborator raises in one row and a later row
\* yields a record.
C8_Witness ==
    /\ pc = "searched"
    /\ spage.load = "ok"
    /\ \E i, j \in 1..Len(select_rows(spage.found, 1)) :
          /\ i < j
          /\ select_rows(spage.found, 1)[i].fault # "none"
          /\ RowKept(select_rows(spage.found, 1)[j], SEARCH_TERMS[1])
    /\ Len(sresult) >= 1

(***************************************************************************)
(* Properties of a run (Spec)                                              *)
(***************************************************************************)

\* scrape_all_searches has returned or an exception has left it.
Exited == pc \in {"dedupe", "returned", "email", "raised", "done"}

\* C2: a run of scrape_all_searches that created a browser session has
\* closed it by the time it returns or propagates an exception.
C2_SessionClosedOnExit == (Exited /\ sessionsMade > 0) => session = "closed"

\* C3: all requests of one run carry the same newerThan/olderThan pair.
C3_OneWindowPerRun ==
    \A i, j \in 1..Len(requests) :
        /\ requests[i].newerThan = requests[j].newerThan
        /\ requests[i].olderThan = requests[j].olderThan

\* The urls of the records of a list.
UrlsOf(q) == {q[k].url : k \in 1..Len(q)}

\* The non-empty urls that two different terms surfaced.
SharedUrls ==
    {u \in UrlsOf(all_auctions) :
        /\ Truthy(u)
        /\ \E i, j \in 1..Len(termResults) :
              i < j /\ u \in UrlsOf(termResults[i]) /\ u \in UrlsOf(termResults[j])}

\* The first term, in SEARCH_TERMS order, whose result has url u.
FirstTermWith(u) ==
    SEARCH_TERMS[CHOOSE i \in 1..Len(termResults) :
                    /\ u \in UrlsOf(termResults[i])
                    /\ \A j \in 1..(i - 1) : u \notin UrlsOf(termResults[j])]

\* C4: a non-empty url surfaced by two terms occurs in exactly one record of
\* the list scrape_all_searches returns, and that record carries the term
\* processed first.
C4_FirstTermWins ==
    pc = "returned" =>
        \A u \in SharedUrls :
            /\ Cardinality({k \in 1..Len(unique) : unique[k].url = u}) = 1
            /\ \A k \in 1..Len(unique) :
                  unique[k].url = u => unique[k].search_term = FirstTermWith(u)

\* The second and third term surfaced the same url, the first did not, and
\* the returned list has another record besides.
C4_Witness ==
    /\ pc = "returned"
    /\ SharedUrls # {}
    /\ \A u \in SharedUrls : u \notin UrlsOf(termResults[1])
    /\ Len(unique) >= 2

\* C9: a term whose page load timed out or whose page had no rows
\* contributed an empty list, the loop went on to the delay without an
\* exception, and the loop ends before the last term only through a failed
\* delay or an interrupt.
C9_EmptyTermIsNoError ==
    /\ \A i \in 1..Len(termResults) :
          loads[i].load \in {"timeout", "norows"} => termResults[i] = <<>>
    /\ pc = "delay" => pending = "none" /\ Len(termResults) = termIdx
    /\ (pc = "finally" /\ Len(termResults) < Len(SEARCH_TERMS))
          => \/ origin = "delay"
             \/ origin = "search" /\ pending = "KeyboardInterrupt"

\* The first term timed out, the second had no rows, the third surfaced a
\* record, and the run returned it.
C9_Witness ==
    /\ pc = "returned"
    /\ loads[1].load = "timeout"
    /\ loads[2].load = "norows"
    /\ Len(termResults[3]) >= 1
    /\ Len(unique) >= 1

\* C10: in a full run in which setup_driver raised, no report email was
\* sent, one failure notification was attempted, the scrape was started
\* once, and the process exits with status 1.
C10_SetupFailureNotifiedOnce ==
    (pc = "done" /\ origin = "setup_driver" /\ ~args.test /\ ~args.email_only)
    => /\ reportMails = 0
       /\ failureMails = 1
       /\ scrapeCalls = 1
       /\ exitStatus = 1

\* A full run that ended after webdriver.Chrome raised.
C10_Witness ==
    /\ pc = "done"
    /\ origin = "setup_driver"
    /\ ~args.test /\ ~args.email_only
    /\ sessionsMade = 0
    /\ requests = <<>>

\* C11: in a run started with --test no email is sent, neither the report
\* nor a failure notification, whatever the other flag and the outcome.
C11_TestSendsNoEmail == args.test => reportMails = 0 /\ failureMails = 0

(***************************************************************************)
(* Properties of meets_criteria (SpecCriteria)                             *)
(***************************************************************************)

\* Some entry of the allow list, lower-cased, is a substring of the
\* lower-cased text.
Matches(allowed, text) ==
    \E i \in 1..Len(allowed) : Contains(Lower(text), Lower(allowed[i]))

\* C12: meets_criteria returns true exactly when title and location are
\* non-empty, an allowed location matches the location and an allowed
\* condition matches the condition, both without regard to letter case.
C12_CriteriaExact ==
    pc = "judged" =>
        (cverdict <=> /\ Truthy(crecord.title)
                      /\ Truthy(crecord.location)
                      /\ Matches(CINCINNATI_LOCATIONS, crecord.location)
                      /\ Matches(FILTER_CONDITIONS, crecord.condition))

\* A record accepted although its location and condition are written in
\* upper case.
C12_Witness ==
    /\ pc = "judged"
    /\ cverdict
    /\ crecord.location = "CINCINNATI - SCHOOL ROAD"
    /\ crecord.condition = "APPEARS NEW"

(***************************************************************************)
(* Properties of title and URL discovery                                   *)
(***************************************************************************)

\* A row with no anchor in cell 1, no clickable element and no link
\* anywhere, but with text in cell 1.
BareRow(r) ==
    /\ r.ncells >= MinCells
    /\ r.fault = "none"
    /\ r.links = <<>>
    /\ r.clickables = <<>>
    /\ Strip(r.text1) # ""

\* The list has exactly one url-less record with the title of bare row r.
OneUrlless(q, r) ==
    Cardinality({k \in 1..Len(q) : q[k].title = Strip(r.text1) /\ q[k].url = ""}) = 1

\* C13: a bare row whose location and condition match yields a record with
\* the cell text as title and no url; search_auctions keeps it, and
\* remove_duplicates keeps one such record, the first.
C13_UrllessRecordKept ==
    pc = "searched" =>
        \A i \in 1..Len(select_rows(spage.found, 1)) :
            (/\ BareRow(select_rows(spage.found, 1)[i])
             /\ Matches(CINCINNATI_LOCATIONS, select_rows(spage.found, 1)[i].loc)
             /\ Matches(FILTER_CONDITIONS, select_rows(spage.found, 1)[i].cond))
            => /\ \E k \in 1..Len(sresult) :
                     /\ sresult[k].title = Strip(select_rows(spage.found, 1)[i].text1)
                     /\ sresult[k].url = ""
               /\ OneUrlless(remove_duplicates(sresult), select_rows(spage.found, 1)[i])
               /\ \E k \in 1..Len(remove_duplicates(sresult)) :
                     /\ remove_duplicates(sresult)[k] = sresult[FirstIdx(sresult,
                            <<"title", Lower(Strip(select_rows(spage.found, 1)[i].text1))>>)]

\* A page with two bare rows and a row with a link: the list has the
\* url-less record twice and a record with a url.
C13_Witness ==
    /\ pc = "searched"
    /\ Len(sresult) = 3
    /\ Cardinality({k \in 1..3 : sresult[k].url = ""}) = 2
    /\ Len(remove_duplicates(sresult)) = 2

\* A row with at least 7 cells, read without a collaborator error, whose
\* description cell has a hyperlink with a target that is no script text.
HasDirectLink(r) ==
    /\ r.ncells >= MinCells
    /\ r.fault = "none"
    /\ Len(Anchors1(r)) > 0
    /\ Truthy(Anchors1(r)[1].href)
    /\ ~Contains(Anchors1(r)[1].href, "javascript:")

\* A link target made absolute against the site: unchanged when it has a
\* scheme, joined to the origin when it starts with '/', given a scheme when
\* it starts with the known host, else joined to the origin with a '/'.
AgainstBase(href) ==
    IF IsAbsoluteHttp(href) THEN href
    ELSE IF StartsWith(href, "/") THEN base_url \o href
    ELSE IF StartsWith(href, "www.bidfta.com") THEN "https://" \o href
    ELSE base_url \o "/" \o href

\* The record of a row with a direct link takes title and url from the link
\* alone and the other fields from the fixed columns.
FromDirectLink(r, res) ==
    /\ res.ret # NoAuction
    /\ res.tiers = {1}
    /\ res.ret.title = Strip(Anchors1(r)[1].text)
    /\ res.ret.url = AgainstBase(Anchors1(r)[1].href)
    /\ res.ret.condition = Strip(r.cond)
    /\ res.ret.location = Strip(r.loc)
    /\ res.ret.end_time = Strip(r.ends)
    /\ res.ret.current_bid = Strip(r.price)

\* C14: for a row with a direct link in cell 1 the title is the link's
\* text, the url is the link's href made absolute against the site, no
\* later tier is consulted, and condition, location, end time and current
\* bid are the trimmed texts of cells 3 to 6.
C14_DirectLink ==
    (pc = "extracted" /\ HasDirectLink(row)) => FromDirectLink(row, extracted[1])

(***************************************************************************)
(* Properties of build_search_url (SpecUrl)                                *)
(***************************************************************************)

\* The compact JSON text of the parameter object for a term and a window,
\* keys in the order searchTerm, locations, conditions, sort, newerThan,
\* olderThan, ended.
ExpectedJson(term, window) ==
    "{\"searchTerm\":" \o json_string(term)
    \o ",\"locations\":" \o json_list(CINCINNATI_LOCATIONS)
    \o ",\"conditions\":" \o json_list(FILTER_CONDITIONS)
    \o ",\"sort\":\"DATE_ASC\""
    \o ",\"newerThan\":\"" \o window[1] \o "\""
    \o ",\"olderThan\":\"" \o window[2] \o "\""
    \o ",\"ended\":false}"

\* C15: two calls of build_search_url with the same term and the same date
\* window return the same URL, and the URL carries the base64 text of the
\* parameter object serialized compactly with its keys in the fixed order,
\* sort DATE_ASC and ended false.
C15_UrlDeterministic ==
    pc = "built" =>
        /\ get_week_date_range(uinput.first) = get_week_date_range(uinput.second)
              => uoutput[1] = uoutput[2]
        /\ uoutput[1] = base_url \o "/archive?searchSettings="
              \o b64encode(ExpectedJson(uinput.term, get_week_date_range(uinput.first)))

\* Two calls on different days of one week, for a term with characters
\* that are escaped.
C15_Witness ==
    /\ pc = "built"
    /\ uinput.first # uinput.second
    /\ get_week_date_range(uinput.first) = get_week_date_range(uinput.second)
    /\ Contains(uinput.term, "\"")
    /\ uoutput[1] = uoutput[2]

(***************************************************************************)
(* Properties of group_auctions_by_search_term (SpecGroup)                 *)
(***************************************************************************)

\* The words that give an end time its priority, in priority order from 0.
DayWords ==
    <<"today", "tomorrow", "sunday", "monday", "tuesday", "wednesday", "thursday",
      "friday", "saturday">>

\* The priority of an end-time text: that of the first word of DayWords it
\* contains, letter case aside, and 9 if it contains none.
PriorityOfLower(text) ==
    IF \E i \in 1..Len(DayWords) : Contains(text, DayWords[i])
    THEN (CHOOSE i \in 1..Len(DayWords) :
             /\ Contains(text, DayWords[i])
             /\ \A j \in 1..(i - 1) : ~Contains(text, DayWords[j])) - 1
    ELSE 9

Priority(text) == PriorityOfLower(Lower(text))

\* The priorities of the records of a list.
Priorities(q) == {Priority(q[i].end_time) : i \in 1..Len(q)}

\* The term a record is filed under.
TermOf(a) == IF "search_term" \in DOMAIN a THEN a.search_term ELSE "Unknown"

\* The records of q filed under term t, and those of them with priority p.
OfTerm(q, t) == SelectSeq(q, LAMBDA a : TermOf(a) = t)
WithPriority(q, p) == SelectSeq(q, LAMBDA a : Priority(a.end_time) = p)

\* C16: the groups are those of the terms that occur, each once; a group
\* holds exactly the input records of its term, in nondecreasing priority
\* of the end-time text, records of equal priority in input order.
C16_GroupedAndSorted ==
    pc = "grouped" =>
        /\ {goutput[k].search_term : k \in 1..Len(goutput)}
              = {TermOf(ginput[i]) : i \in 1..Len(ginput)}
        /\ \A k, l \in 1..Len(goutput) :
              goutput[k].search_term = goutput[l].search_term => k = l
        /\ \A k \in 1..Len(goutput) :
              /\ Len(goutput[k].auctions) = Len(OfTerm(ginput, goutput[k].search_term))
              /\ \A p \in Priorities(goutput[k].auctions) :
                    WithPriority(goutput[k].auctions, p)
                       = WithPriority(OfTerm(ginput, goutput[k].search_term), p)
              /\ \A i, j \in 1..Len(goutput[k].auctions) :
                    i < j => Priority(goutput[k].auctions[i].end_time)
                                <= Priority(goutput[k].auctions[j].end_time)

\* A list of three records of one term, given in decreasing priority order
\* with the day written in upper case, which the grouping reorders.
C16_Witness ==
    /\ pc = "grouped"
    /\ Len(ginput) = 3
    /\ Len(goutput) = 1
    /\ ginput[1].end_time = "12/31 5PM"
    /\ ginput[2].end_time = "Ends SUNDAY 8PM"
    /\ ginput[3].end_time = "Today 5PM"
    /\ goutput[1].auctions = <<ginput[3], ginput[2], ginput[1]>>

(***************************************************************************)
(* Properties of the debug tool's row limit (SpecDebug)                    *)
(***************************************************************************)

\* C17: with --max-auctions N, N >= 0 (N = 0 included), the debug tool runs
\* extraction on at most N rows of a search term's page.
C17_AtMostNRows ==
    (pc = "debugged" /\ binput.max_auctions.given /\ binput.max_auctions.n >= 0)
        => Len(boutput.processed) <= binput.max_auctions.n

(***************************************************************************)
(* Properties of the title fallback and the tier order (SpecExtract)       *)
(***************************************************************************)

\* The title that Strategies 1 to 3 leave behind on a row: the direct
\* link's text, else the cell text next to a clickable element, else what
\* the row-level links give.
TitleOfTiers123(r) ==
    IF Len(Anchors1(r)) > 0 THEN Strip(Anchors1(r)[1].text)
    ELSE IF Len(r.clickables) > 0 THEN Strip(r.text1)
    ELSE strategy3(r, "", "").title

\* C18: on a row with at least 7 cells where Strategies 1 to 3 leave the
\* title empty (a direct link without visible text included), the returned
\* title is the trimmed text of cell 1, with or without a URL.
C18_TitleFallsBackToCellText ==
    (/\ pc = "extracted"
     /\ row.ncells >= 7
     /\ row.fault = "none"
     /\ TitleOfTiers123(row) = "")
        => /\ extracted[1].ret # NoAuction
           /\ extracted[1].ret.title = Strip(row.text1)

\* The raw URL candidate in strict tier order: the href of the direct link,
\* else the first non-empty attribute of the first clickable element, else
\* the row-level link.
Tier1Url(r) == IF Len(Anchors1(r)) > 0 THEN Anchors1(r)[1].href ELSE None

Tier2Url(r) ==
    IF Len(r.clickables) > 0
    THEN PyOr4(r.clickables[1].onclick, r.clickables[1].dataHref,
               r.clickables[1].dataUrl, r.clickables[1].href)
    ELSE None

Tier3Url(r) == strategy3(r, "", "").url

FirstCandidate(r) ==
    IF Truthy(Tier1Url(r)) THEN Tier1Url(r)
    ELSE IF Truthy(Tier2Url(r)) THEN Tier2Url(r)
    ELSE Tier3Url(r)

UrlFromCandidate(r, res) ==
    /\ res.ret # NoAuction
    /\ IF Truthy(FirstCandidate(r)) THEN res.ret.url = clean_url(FirstCandidate(r))
       ELSE ~Truthy(res.ret.url)

\* C19: the raw URL candidate of a row is the first non-empty one in tier
\* order (direct link, first clickable element, row-level link); a tier
\* whose element yields no URL value hands over to the next tier.
C19_FirstCandidateInTierOrder ==
    (pc = "extracted" /\ row.ncells >= 7 /\ row.fault = "none")
        => UrlFromCandidate(row, extracted[1])

(***************************************************************************)
(* Properties of the script clean-up (SpecExtract)                         *)
(***************************************************************************)

\* The raw candidate is the value of the first clickable element's onclick
\* attribute.
FromOnclick(r, raw) ==
    /\ Len(Anchors1(r)) = 0
    /\ Len(r.clickables) > 0
    /\ Truthy(r.clickables[1].onclick)
    /\ raw = r.clickables[1].onclick

\* The raw candidate is script or inline-handler text that holds an
\* absolute http(s) URL.
ScriptWithUrl(r, raw) ==
    /\ Truthy(raw)
    /\ StartsWith(raw, "javascript:") \/ FromOnclick(r, raw)
    /\ re_search_url(raw) # None

\* C20: when the raw URL candidate is script or inline-handler text (a
\* 'javascript:' href or an onclick value) with an embedded absolute
\* http(s) URL, the record's url is exactly the embedded URL.
C20_EmbeddedUrlExtracted ==
    (/\ pc = "extracted"
     /\ row.ncells >= 7
     /\ row.fault = "none"
     /\ ScriptWithUrl(row, find_title_url(row).url))
        => /\ extracted[1].ret # NoAuction
           /\ extracted[1].ret.url = re_search_url(find_title_url(row).url)

(***************************************************************************)
(* Properties of remove_duplicates, continued (SpecDedupe)                 *)
(***************************************************************************)

\* The records of q, from index i on, whose key does not occur earlier in q.
RECURSIVE FirstOfKey(_, _)
FirstOfKey(q, i) ==
    IF i > Len(q) THEN <<>>
    ELSE IF \E j \in 1..(i - 1) : Key(q[j]) = Key(q[i]) THEN FirstOfKey(q, i + 1)
    ELSE <<q[i]>> \o FirstOfKey(q, i + 1)

\* C21: remove_duplicates keeps a record if and only if its key (the url
\* when non-empty, else the lower-cased trimmed title) has not occurred
\* earlier in the sequence; a record whose url and title are both empty is
\* kept like any other first occurrence.
C21_KeptIffKeyUnseen == pc = "deduped" => doutput[1] = FirstOfKey(dinput, 1)

(***************************************************************************)
(* Properties of a run, continued (Spec)                                   *)
(***************************************************************************)

\* The lists of q joined in order.
RECURSIVE Concat(_)
Concat(q) == IF q = <<>> THEN <<>> ELSE Head(q) \o Concat(Tail(q))

\* C22: scrape_all_searches searches the terms in SEARCH_TERMS order, one
\* at a time; what it returns is remove_duplicates of the per-term lists
\* joined in term order; and no de-duplicated list exists before the last
\* term has finished.
C22_TermsInOrderThenDedupe ==
    /\ \A k \in 1..Len(requests) : requests[k].searchTerm = SEARCH_TERMS[k]
    /\ Len(termResults) <= Len(requests)
    /\ Len(requests) <= Len(termResults) + 1
    /\ pc \in {"loop", "delay"} => Len(requests) = Len(termResults)
    /\ pc = "returned" =>
          /\ Len(termResults) = Len(SEARCH_TERMS)
          /\ unique = remove_duplicates(Concat(termResults))
    /\ Len(termResults) < Len(SEARCH_TERMS) => unique = <<>> /\ pc # "dedupe"

\* All three terms returned a record, the second a different one than the
\* first and the third, and the returned list is shorter than the joined one.
C22_Witness ==
    /\ pc = "returned"
    /\ \A k \in 1..Len(termResults) : Len(termResults[k]) > 0
    /\ termResults[1] # termResults[2]
    /\ Len(unique) = 2
    /\ Len(Concat(termResults)) = 3

\* C23: a run creates at most one browser session, and exactly one before
\* its first page load; every page load and row read happens in that
\* session while it is open, never after it was closed; and a page load has
\* ended before the next one is requested.
C23_OneSessionReusedSerially ==
    /\ sessionsMade <= 1
    /\ Len(requests) > 0 => sessionsMade = 1
    /\ \A k \in 1..Len(loads) : loads[k].session = "open"
    /\ Len(loads) = Len(requests)
    /\ session = "closed" => pc \notin {"loop", "delay", "finally"}

\* Every term's page was loaded, one of them with rows, and the session is
\* closed.
C23_Witness ==
    /\ Len(loads) = Len(SEARCH_TERMS)
    /\ \E k \in 1..Len(loads) : loads[k].load = "rows"
    /\ session = "closed"
    /\ sessionsMade = 1

(***************************************************************************)
(* Properties of the row selectors (SpecSearch)                            *)
(***************************************************************************)

\* Selector k qualifies: it did not raise and matched more than one element.
Qualifies(found, k) == ~found[k].raises /\ Len(found[k].rows) > 1

\* The first selector, in the fixed order, that qualifies.
FirstQualifying(found) ==
    CHOOSE k \in 1..Len(found) :
        Qualifies(found, k) /\ \A j \in 1..(k - 1) : ~Qualifies(found, j)

\* C24: search_auctions uses the first selector, in the fixed order, that
\* matches more than one element, and extracts all its matches but the
\* first; selectors that match 0 or 1 elements or raise are passed over,
\* and when none qualifies the term's list is empty.
C24_FirstQualifyingSelector ==
    (pc = "searched" /\ spage.load = "ok") =>
        IF \E k \in 1..Len(spage.found) : Qualifies(spage.found, k)
        THEN sresult = KeptRecords(Tail(spage.found[FirstQualifying(spage.found)].rows),
                                   SEARCH_TERMS[1])
        ELSE sresult = <<>>

\* The first selector raised, the second matched one element, the third
\* matched two data rows of which the second was returned, and a later
\* selector matched other rows.
C24_Witness ==
    /\ pc = "searched"
    /\ spage.load = "ok"
    /\ spage.found[1].raises
    /\ Len(spage.found[2].rows) = 1
    /\ Len(spage.found[3].rows) = 2
    /\ spage.found[3].rows[1] = DefaultRow
    /\ Qualifies(spage.found, 6)
    /\ spage.found[6].rows # spage.found[3].rows
    /\ Len(sresult) = 1
    /\ sresult[1].title = "Rug 5x7"

(***************************************************************************)
(* Properties of the date window (SpecWeek)                                *)
(***************************************************************************)

\* The most recent Sunday at or before day d: 0 to 6 days back.
RecentSunday(d) == CHOOSE s \in (d - 6)..d : weekday(s) = 6

\* The number written by a text of decimal digits.
RECURSIVE NumberOf(_)
NumberOf(t) ==
    IF t = "" THEN 0
    ELSE 10 * NumberOf(SubSeq(t, 1, Len(t) - 1))
         + IndexIn("0123456789", CharAt(t, Len(t))) - 1

\* The date of a 'YYYY-MM-DDT04:00:00.000Z' text as one number that grows
\* with time.
DateOf(t) ==
    10000 * NumberOf(SubSeq(t, 1, 4)) + 100 * NumberOf(SubSeq(t, 6, 7))
    + NumberOf(SubSeq(t, 9, 10))

StampedAtFour(t) == Len(t) = 24 /\ SubSeq(t, 11, 24) = "T04:00:00.000Z"

\* The window starts at the given day, ends the given number of days later,
\* both stamped 04:00:00.000Z, and does not end before it starts.
WindowIs(range, start, days) ==
    /\ range = <<strftime_window(start), strftime_window(start + days)>>
    /\ StampedAtFour(range[1]) /\ StampedAtFour(range[2])
    /\ DateOf(range[1]) <= DateOf(range[2])

\* C25: in default mode the window starts at the most recent Sunday at or
\* before now, stamped 04:00:00.000Z, and ends 7 days later in the scraper
\* and 6 days later in the debug tool; newerThan <= olderThan, also across
\* month and year boundaries.
C25_WeekWindow ==
    pc = "ranged" =>
        /\ WindowIs(woutput[1], RecentSunday(winput.now), 7)
        /\ ~winput.ignore_dates => WindowIs(woutput[2], RecentSunday(winput.now), 6)

\* Wednesday 2025-01-01: the window starts in the old year and ends in the
\* new one.
C25_Witness ==
    /\ pc = "ranged"
    /\ winput = [now |-> 366, ignore_dates |-> FALSE]
    /\ woutput[1] = <<"2024-12-29T04:00:00.000Z", "2025-01-05T04:00:00.000Z">>
    /\ woutput[2] = <<"2024-12-29T04:00:00.000Z", "2025-01-04T04:00:00.000Z">>

(***************************************************************************)
(* Properties of the row-level link search (SpecExtract)                   *)
(***************************************************************************)

\* Strategy 3 of the production extractor runs on the row: the description
\* cell has no link and no clickable element was found.
Tier3Runs(r) ==
    /\ r.ncells >= MinCells
    /\ r.fault \in {"none", "s2"}
    /\ Len(Anchors1(r)) = 0
    /\ r.fault = "s2" \/ Len(r.clickables) = 0

HasMarker(href) ==
    href # None /\ href # "" /\ (Contains(href, "itemDetails") \/ Contains(href, "auction"))

\* The links of the row that carry a marker, in document order.
MarkedLinks(r) == SelectSeq(r.links, LAMBDA a : HasMarker(a.href))

\* C26: in tier 3 the URL is the href of the first link of the row, in
\* document order, whose href contains 'itemDetails' or 'auction'; the
\* first link of the row is used only when no link carries a marker.
C26_MarkedLinkFirst ==
    (pc = "extracted" /\ Tier3Runs(row)) =>
        /\ extracted[1].ret # NoAuction
        /\ IF Len(MarkedLinks(row)) > 0
           THEN extracted[1].ret.url = clean_url(MarkedLinks(row)[1].href)
           ELSE IF Len(row.links) > 0
           THEN extracted[1].ret.url = clean_url(row.links[1].href)
           ELSE ~Truthy(extracted[1].ret.url)

\* A row whose first link carries no marker and whose second and third
\* links both do: the second link's href is the url.
C26_Witness ==
    /\ pc = "extracted"
    /\ Tier3Runs(row)
    /\ Len(row.links) = 3
    /\ ~HasMarker(row.links[1].href)
    /\ HasMarker(row.links[2].href)
    /\ HasMarker(row.links[3].href)
    /\ extracted[1].ret.url = "https://www.bidft.auction/itemDetails/55"

(***************************************************************************)
(* Properties of the image download (SpecExtract)                          *)
(***************************************************************************)

\* The same row with a download that succeeds.
DownloadOk(r) == [r EXCEPT !.dl = "ok"]

\* The download of the row's image cannot give a file: the request fails,
\* or there is nothing to request.
DownloadFails(r, image_url) ==
    r.dl # "ok" \/ ~Truthy(image_url) \/ StartsWith(image_url, "data:")

\* The record without its image_path.
SansPath(a) == [k \in DOMAIN a \ {"image_path"} |-> a[k]]

\* C27: a failed image download never loses a record. Whenever the row
\* yields a record with a working download it yields the same record with
\* a failing one, except that image_path is null; image_path is null
\* whenever the URL is empty or a 'data:' URL, the response is not 200 or
\* fetching or writing raises; and the downloader is called only when an
\* image URL was found.
C27_DownloadFailureKeepsRecord ==
    pc = "extracted" =>
        /\ (extracted[1].ret = NoAuction)
              = (extract_auction_from_row(DownloadOk(row), SEARCH_TERMS[1]).ret = NoAuction)
        /\ extracted[1].ret # NoAuction =>
              /\ SansPath(extracted[1].ret)
                    = SansPath(extract_auction_from_row(DownloadOk(row), SEARCH_TERMS[1]).ret)
              /\ DownloadFails(row, extracted[1].ret.image_url)
                    => extracted[1].ret.image_path = None
              /\ (extracted[1].downloads # <<>>) = Truthy(extracted[1].ret.image_url)

\* A row with an image whose download got a non-200 response or raised:
\* the record is returned, without a path, after one call of the downloader.
C27_Witness ==
    /\ pc = "extracted"
    /\ row.dl \in {"non200", "error"}
    /\ extracted[1].ret # NoAuction
    /\ extracted[1].ret.image_url = "https://www.bidft.auction/img/55.jpg"
    /\ extracted[1].ret.image_path = None
    /\ extracted[1].ret.title = "Cat Tower"
    /\ Len(extracted[1].downloads) = 1

(***************************************************************************)
(* The two extractors compared (SpecExtract)                               *)
(***************************************************************************)

\* The fields both extractors report.
SharedFields(a) ==
    [title |-> a.title, url |-> a.url, condition |-> a.condition,
     location |-> a.location, end_time |-> a.end_time, current_bid |-> a.current_bid]

\* C28: on every row the production extractor and the debug tool's
\* extractor both return null, or return the same title, url, condition,
\* location, end_time and current_bid.
C28_ExtractorsAgree ==
    pc = "extracted" =>
        IF extracted[1].ret = NoAuction THEN extracted[2].ret = NoAuction
        ELSE /\ extracted[2].ret # NoAuction
             /\ SharedFields(extracted[1].ret) = SharedFields(extracted[2].ret)

(***************************************************************************)
(* Properties of the report's images (SpecMail)                            *)
(***************************************************************************)

\* The attachment a mail reader shows for an inline reference: the first
\* one with that Content-ID.
Resolve(attachments, src) ==
    attachments[CHOOSE i \in 1..Len(attachments) :
                   /\ attachments[i].content_id = "<" \o SubSeq(src, 5, Len(src)) \o ">"
                   /\ \A j \in 1..(i - 1) :
                         attachments[j].content_id # attachments[i].content_id]

\* C29: in a report no two attached images share a Content-ID, and every
\* inline image reference of the HTML whose image is attached resolves to
\* the image of its own auction, for any de-duplicated list, url-less
\* records included.
C29_ContentIdsDistinct ==
    (pc = "reported" /\ eoutput.sent) =>
        /\ \A i, j \in 1..Len(eoutput.attachments) :
              i # j => eoutput.attachments[i].content_id # eoutput.attachments[j].content_id
        /\ \A k \in 1..Len(eoutput.images) :
              (/\ eoutput.images[k].kind = "inline"
               /\ eoutput.images[k].item.image_path \notin einput.unreadable)
              => Resolve(eoutput.attachments, eoutput.images[k].src).data
                    = eoutput.images[k].item.image_path

(***************************************************************************)
(* Invariants of the output of remove_duplicates (SpecDedupe)              *)
(***************************************************************************)

\* C30: in every output of remove_duplicates no two records have the same
\* non-empty url, no two url-less records have the same lower-cased trimmed
\* title, and no record has both an empty url and an empty title.
C30_OutputKeysDistinct ==
    pc = "deduped" =>
        /\ \A i, j \in 1..Len(doutput[1]) :
              (i # j /\ Truthy(doutput[1][i].url))
              => doutput[1][i].url # doutput[1][j].url
        /\ \A i, j \in 1..Len(doutput[1]) :
              (i # j /\ ~Truthy(doutput[1][i].url) /\ ~Truthy(doutput[1][j].url))
              => Strip(Lower(doutput[1][i].title)) # Strip(Lower(doutput[1][j].title))
        /\ \A i \in 1..Len(doutput[1]) :
              Truthy(doutput[1][i].url) \/ doutput[1][i].title # ""

\* Two url-less records whose titles differ only in case and blanks,
\* followed by a record without url and title: one record is left.
C30_Witness ==
    /\ pc = "deduped"
    /\ Len(dinput) = 3
    /\ ~Truthy(dinput[1].url) /\ ~Truthy(dinput[2].url) /\ ~Truthy(dinput[3].url)
    /\ dinput[1].title = "Cat Tower"
    /\ dinput[2].title = " cat tower"
    /\ dinput[3].title = ""
    /\ doutput[1] = <<dinput[1]>>

====
